---- MODULE Spec2Model ----
(***************************************************************************)
(* A model of the python-ldap C extension (Modules/): the connection       *)
(* handle (LDAPObject) with its validity flag and thread-state slot, the   *)
(* operation dispatcher, the result collector l_ldap_result4, the error    *)
(* mapper (LDAPerr, LDAPraise_for_message) and the modification-list       *)
(* marshaller (List_to_LDAPMods, Tuple_to_LDAPMod and their destructors).  *)
(*                                                                         *)
(* Specifications:                                                         *)
(*   Spec      one caller thread driving one handle                        *)
(*   SpecMT    two caller threads driving the same handle                  *)
(*   SpecErr   the error mapper applied to bounded inputs                  *)
(*   SpecMods  List_to_LDAPMods run step by step over a bounded heap       *)
(***************************************************************************)
EXTENDS Integers, Sequences, FiniteSets, TLC

VARIABLES
    valid,      \* LDAPObject.valid
    ldap,       \* LDAPObject.ldap: "open" | "unbound" (session released) | "NULL"
    save,       \* LDAPObject._save: "NULL" or the saved thread state
    alive,      \* the LDAPObject has not been deallocated
    gil,        \* holder of the interpreter's execution context, or "free"
    pc,         \* per thread: position inside the running handler
    frame,      \* per thread: the locals of the running handler
    ret,        \* per thread: what the last completed call returned
    tstate,     \* per thread: the thread state it last reacquired
    ld_errno,   \* engine: last result code of the session
    ld_error,   \* engine: last diagnostic message of the session
    errIn,      \* SpecErr: the inputs of the mapper call
    errOut,     \* SpecErr: what the mapper raised
    modIn,      \* SpecMods: the Python arguments (list, no_op)
    mpc,        \* SpecMods: position inside List_to_LDAPMods
    heap,       \* SpecMods: the native blocks allocated so far
    lms,        \* SpecMods: local lms of List_to_LDAPMods (a pointer)
    cur,        \* SpecMods: local i of List_to_LDAPMods
    mres        \* SpecMods: outcome and memory-safety observations

hvars == <<valid, ldap, save, alive, gil, pc, frame, ret, tstate, ld_errno, ld_error>>
evars == <<errIn, errOut>>
mvars == <<modIn, mpc, heap, lms, cur, mres>>
vars == <<valid, ldap, save, alive, gil, pc, frame, ret, tstate, ld_errno, ld_error,
          errIn, errOut, modIn, mpc, heap, lms, cur, mres>>

NULL == "NULL"

----------------------------------------------------------------------------
(* Result codes (ldap.h) and the exception table of constants.c            *)

LDAP_SUCCESS == 0
LDAP_OPERATIONS_ERROR == 1
LDAP_REFERRAL == 10
LDAP_SASL_BIND_IN_PROGRESS == 14
LDAP_NO_SUCH_OBJECT == 32
LDAP_SERVER_DOWN == 0 - 1
LDAP_TIMEOUT == 0 - 5
LDAP_NO_MEMORY == 0 - 10
LDAP_REFERRAL_LIMIT_EXCEEDED == 0 - 17
LDAP_PROXIED_AUTHORIZATION_DENIED == 123
LDAP_DECODING_ERROR == 0 - 4
LDAP_OPT_SUCCESS == 0
LDAP_OPT_ERROR == 0 - 1

LDAP_ERROR_MIN == LDAP_REFERRAL_LIMIT_EXCEEDED
LDAP_ERROR_MAX == LDAP_PROXIED_AUTHORIZATION_DENIED
LDAP_ERROR_OFFSET == 0 - LDAP_ERROR_MIN

\* The base exception class and the classes add_err() registers.  The list of
\* registered codes is generated (constants_generated.h); a sample of it that
\* holds both ends of the table and leaves gaps inside it.
LDAPexception_class == "LDAPError"

ErrorNames ==
    [c \in {LDAP_REFERRAL_LIMIT_EXCEEDED, LDAP_NO_MEMORY, LDAP_TIMEOUT,
            LDAP_SERVER_DOWN, LDAP_OPERATIONS_ERROR, LDAP_REFERRAL,
            LDAP_NO_SUCH_OBJECT, LDAP_PROXIED_AUTHORIZATION_DENIED} |->
        CASE c = LDAP_REFERRAL_LIMIT_EXCEEDED -> "REFERRAL_LIMIT_EXCEEDED"
          [] c = LDAP_NO_MEMORY -> "NO_MEMORY"
          [] c = LDAP_TIMEOUT -> "TIMEOUT"
          [] c = LDAP_SERVER_DOWN -> "SERVER_DOWN"
          [] c = LDAP_OPERATIONS_ERROR -> "OPERATIONS_ERROR"
          [] c = LDAP_REFERRAL -> "REFERRAL"
          [] c = LDAP_NO_SUCH_OBJECT -> "NO_SUCH_OBJECT"
          [] OTHER -> "PROXIED_AUTHORIZATION_DENIED"]

\* static PyObject *errobjects[LDAP_ERROR_MAX - LDAP_ERROR_MIN + 1]: zero
\* initialised, slot n + LDAP_ERROR_OFFSET filled by add_err(n).
errobjects ==
    [i \in 0 .. (LDAP_ERROR_MAX - LDAP_ERROR_MIN) |->
        IF (i - LDAP_ERROR_OFFSET) \in DOMAIN ErrorNames
        THEN ErrorNames[i - LDAP_ERROR_OFFSET] ELSE NULL]

\* An exception value: its class and its argument (a string, nothing, the
\* {errnum} dictionary, the errno pair or the info dictionary).
NoInfo ==
    [msgtype |-> 0, msgid |-> 0 - 1, result |-> 0, desc |-> "", errno |-> 0,
     ctrls |-> 0 - 1, matched |-> "", info |-> ""]

Exc(cls, form, str, num, info) ==
    [cls |-> cls, form |-> form, str |-> str, num |-> num, info |-> info]

ExcString(cls, str) == Exc(cls, "str", str, 0, NoInfo)
ExcNone(cls) == Exc(cls, "none", "", 0, NoInfo)
NoExc == Exc("-", "none", "", 0, NoInfo)
MemoryError == ExcNone("MemoryError")

\* ldap_err2string(): the engine's description of a result code.
ldap_err2string(errnum) ==
    IF errnum \in DOMAIN ErrorNames THEN ErrorNames[errnum]
    ELSE IF errnum = LDAP_SUCCESS THEN "Success" ELSE "Unknown error"

----------------------------------------------------------------------------
(* The error mapper, constants.c                                           *)

\* A read of errobjects[i]; outside the array the read yields whatever the
\* adjacent memory holds (oob: NULL or a garbage pointer).
TableRead(i, oob) == IF i \in DOMAIN errobjects THEN errobjects[i] ELSE oob

\* The guard of LDAPerr (constants.c:34) and of LDAPraise_for_message
\* (constants.c:95): the code lies inside the table.
InTable_off(errnum) == errnum >= LDAP_ERROR_MIN /\ errnum <= LDAP_ERROR_MAX + 1
InTable(errnum) == errnum >= LDAP_ERROR_MIN /\ errnum <= LDAP_ERROR_MAX

\* LDAPerr(errnum): convert a bare error number into an exception.
\* nomem: Py_BuildValue fails.  idx: the table slots read.
LDAPerr(errnum, nomem, oob) ==
    IF InTable(errnum) /\ TableRead(errnum + LDAP_ERROR_OFFSET, oob) # NULL
    THEN [exc |-> ExcNone(TableRead(errnum + LDAP_ERROR_OFFSET, oob)),
          idx |-> {errnum + LDAP_ERROR_OFFSET}]
    ELSE [exc |-> IF nomem THEN MemoryError
                  ELSE Exc(LDAPexception_class, "errnum", "", errnum, NoInfo),
          idx |-> IF InTable(errnum) THEN {errnum + LDAP_ERROR_OFFSET} ELSE {}]

\* A message handed to the mapper, or none.
NoMsg ==
    [present |-> FALSE, type |-> 0, id |-> 0 - 1, code |-> 0, diag |-> "",
     matched |-> "", nrefs |-> 0, nctrls |-> 0]

ReferralInfo == "Referral:ldap://r/"

\* The steps of LDAPraise_for_message at which a Python allocation is checked.
RaiseSteps ==
    {"dict", "msgtype", "msgid", "result", "desc", "errno", "ctrls",
     "ctrls_set", "matched", "info"}

\* The steps in the order of the code; "ctrls" is LDAPControls_to_List
\* (constants.c:165), "ctrls_set" the PyDict_SetItemString after it (174).
StepOrder ==
    <<"dict", "msgtype", "msgid", "result", "desc", "errno", "ctrls",
      "ctrls_set", "matched", "info">>
StepPos(s) == CHOOSE k \in DOMAIN StepOrder : StepOrder[k] = s

\* LDAPraise_for_message(l, m).  in: l (session present), m (message),
\* oserrno (errno at entry), lderrno / lderror / ldmatched (session options),
\* optres (return of ldap_get_option(LDAP_OPT_ERROR_NUMBER)), fail (the step
\* whose allocation fails, or "none"), oob.
LDAPraise_for_message(in) ==
    LET m == in.m
        msgid == IF m.present THEN m.id ELSE 0 - 1
        msgtype == IF m.present THEN m.type ELSE 0
        useopt == msgtype <= 0
        errnum == IF useopt
                  THEN (IF in.optres # LDAP_OPT_SUCCESS THEN in.optres ELSE in.lderrno)
                  ELSE m.code
        matched == IF useopt THEN in.ldmatched ELSE m.matched
        error == IF useopt THEN in.lderror ELSE m.diag
        nrefs == IF m.present THEN m.nrefs ELSE 0
        nctrls == IF m.present THEN m.nctrls ELSE 0
        slot == IF InTable(errnum) THEN TableRead(errnum + LDAP_ERROR_OFFSET, in.oob)
                ELSE NULL
        errobj == IF slot = NULL THEN LDAPexception_class ELSE slot
        referral == errnum = LDAP_REFERRAL /\ nrefs > 0
        executed ==
            {"dict", "result", "desc", "ctrls", "ctrls_set"}
            \cup (IF msgtype > 0 THEN {"msgtype"} ELSE {})
            \cup (IF msgid >= 0 THEN {"msgid"} ELSE {})
            \cup (IF in.oserrno # 0 THEN {"errno"} ELSE {})
            \cup (IF matched # "" THEN {"matched"} ELSE {})
            \cup (IF referral \/ error # "" THEN {"info"} ELSE {})
        info ==
            [msgtype |-> IF msgtype > 0 THEN msgtype ELSE 0,
             msgid |-> IF msgid >= 0 THEN msgid ELSE 0 - 1,
             result |-> errnum,
             desc |-> ldap_err2string(errnum),
             errno |-> in.oserrno,
             ctrls |-> Len(SubSeq(<<"c", "c", "c">>, 1, nctrls)),
             matched |-> matched,
             info |-> IF referral THEN ReferralInfo ELSE error]
    IN  IF ~in.l
        THEN [exc |-> Exc(LDAPexception_class, "errno", "", in.oserrno, NoInfo),
              idx |-> {}]
        ELSE IF useopt /\ in.optres = LDAP_NO_MEMORY
        THEN [exc |-> MemoryError, idx |-> {}]
        ELSE [exc |-> IF in.fail \in executed THEN MemoryError
                      ELSE Exc(errobj, "info", "", 0, info),
              idx |-> IF InTable(errnum) THEN {errnum + LDAP_ERROR_OFFSET} ELSE {}]

\* LDAPerror(l): the mapper without a message.
LDAPerror(in) == LDAPraise_for_message([in EXCEPT !.m = NoMsg])

\* The native allocations LDAPraise_for_message handles: the message, and
\* what ldap_parse_result or ldap_get_option hand out.
Natives == {"m", "matched", "error", "refs", "serverctrls"}
NoRel == [k \in Natives |-> [live |-> FALSE, frees |-> 0]]

\* "matched = NULL" after ldap_memfree(matched) (constants.c:192-193) and
\* "serverctrls = NULL" after ldap_controls_free(serverctrls) (172-173).
NullAfterFree_never == FALSE
NullAfterFree == TRUE

\* How often a pointer is released that was released in line (inline) or
\* not, and is released at cleanup when it is not NULL there.
Releases(alloc, inline) ==
    IF ~alloc THEN 0
    ELSE (IF inline THEN 1 ELSE 0)
         + (IF inline /\ NullAfterFree THEN 0 ELSE 1)

\* The releases of one call of LDAPraise_for_message(l, m): for each native
\* allocation whether it existed and how often it was released.  A string
\* the engine has no text for is NULL (in.nullstr) or an allocated "".
RaiseReleases(in) ==
    LET m == in.m
        useopt == (IF m.present THEN m.type ELSE 0) <= 0
        errnum == IF useopt
                  THEN (IF in.optres # LDAP_OPT_SUCCESS THEN in.optres ELSE in.lderrno)
                  ELSE m.code
        matched == IF useopt THEN in.ldmatched ELSE m.matched
        error == IF useopt THEN in.lderror ELSE m.diag
        referral == errnum = LDAP_REFERRAL /\ m.present /\ m.nrefs > 0
        executed ==
            {"dict", "result", "desc", "ctrls", "ctrls_set"}
            \cup (IF ~useopt THEN {"msgtype"} ELSE {})
            \cup (IF m.present /\ m.id >= 0 THEN {"msgid"} ELSE {})
            \cup (IF in.oserrno # 0 THEN {"errno"} ELSE {})
            \cup (IF matched # "" THEN {"matched"} ELSE {})
            \cup (IF referral \/ error # "" THEN {"info"} ELSE {})
        failpos == IF in.fail \in executed THEN StepPos(in.fail)
                   ELSE Len(StepOrder) + 1
        one(alloc) == [live |-> alloc, frees |-> IF alloc THEN 1 ELSE 0]
        msgOnly == [NoRel EXCEPT !["m"] = one(m.present)]
    IN  IF ~in.l THEN msgOnly
        ELSE IF useopt /\ in.optres = LDAP_NO_MEMORY THEN msgOnly
        ELSE [k \in Natives |->
                CASE k = "m" -> one(m.present)
                  [] k = "matched" ->
                        [live |-> matched # "" \/ ~in.nullstr,
                         frees |-> Releases(matched # "" \/ ~in.nullstr,
                                            failpos > StepPos("matched"))]
                  [] k = "error" ->
                        [live |-> error # "" \/ ~in.nullstr,
                         frees |-> Releases(error # "" \/ ~in.nullstr, FALSE)]
                  [] k = "refs" ->
                        [live |-> m.present /\ m.nrefs > 0,
                         frees |-> Releases(m.present /\ m.nrefs > 0, FALSE)]
                  [] OTHER ->
                        [live |-> m.present /\ m.nctrls > 0,
                         frees |-> Releases(m.present /\ m.nctrls > 0,
                                            failpos > StepPos("ctrls"))]]

----------------------------------------------------------------------------
(* The connection handle and the dispatcher, LDAPObject.c                  *)

Threads == {"T1", "T2"}

\* The methods of LDAP_Type (LDAPObject.c:1521) and the destructor.
CtrlOps ==
    {"abandon_ext", "simple_bind", "sasl_bind_s", "cancel", "compare_ext",
     "delete_ext", "rename", "whoami_s", "passwd", "extop"}
ModOps == {"add_ext", "modify_ext"}
DispatchOps ==
    CtrlOps \cup ModOps
    \cup {"unbind_ext", "search_ext", "start_tls_s", "sasl_interactive_bind_s"}
OptionOps == {"set_option", "get_option"}
Ops == DispatchOps \cup {"result4"} \cup OptionOps

\* Message types returned by ldap_result (ldap.h).
LDAP_RES_SEARCH_ENTRY == 100
LDAP_RES_SEARCH_RESULT == 101
LDAP_RES_SEARCH_REFERENCE == 115
LDAP_RES_EXTENDED == 120
LDAP_RES_INTERMEDIATE == 121
MsgTypes ==
    {LDAP_RES_SEARCH_ENTRY, LDAP_RES_SEARCH_RESULT, LDAP_RES_SEARCH_REFERENCE,
     LDAP_RES_EXTENDED, LDAP_RES_INTERMEDIATE}
TerminalTypes == {LDAP_RES_SEARCH_RESULT, LDAP_RES_EXTENDED}

\* Result codes a server puts into a terminal message: success, referral, a
\* classified error and a code of the table's range that has no class.
UnclassifiedCode == 9
MsgCodes == {LDAP_SUCCESS, LDAP_REFERRAL, LDAP_NO_SUCH_OBJECT, UnclassifiedCode}

Messages ==
    {[present |-> TRUE, type |-> ty, id |-> 1, code |-> 0, diag |-> "",
      matched |-> "", nrefs |-> 0, nctrls |-> 0] :
        ty \in MsgTypes \ TerminalTypes}
    \cup
    [present : {TRUE}, type : TerminalTypes, id : {1}, code : MsgCodes,
     diag : {"", "no such entry"}, matched : {""}, nrefs : {0, 1},
     nctrls : {0, 1}]

\* Timeouts of result4 in milliseconds: infinite, poll, a fraction, seconds.
Timeouts == {0 - 1000, 0, 500, 2000}

\* Option classes of options.c (the switch of LDAP_set_option/LDAP_get_option).
OptClasses == {"readonly", "bool", "int", "string", "timeval", "controls", "unknown"}

\* The classes LDAP_set_option refuses as read-only (options.c:52-59).
ReadOnlyOptions_none == {}
ReadOnlyOptions == {"readonly"}

\* The native structures a handler holds, by local variable.
ResKeys ==
    {"mods", "attrs", "server_ldcs", "client_ldcs", "controls", "msg", "retoid",
     "retdata", "refs", "serverctrls", "bvalue"}
NoRes == [k \in ResKeys |-> "null"]
Alloc(res, k) == [res EXCEPT ![k] = "live"]
Free(res, k) ==
    [res EXCEPT ![k] = IF @ = "null" THEN "null"
                       ELSE IF @ = "live" THEN "freed" ELSE "freed2"]

\* The arguments of a call, as far as the handler's control flow reads them.
\* wf: PyArg_ParseTuple accepts them.  mods / attrs / sc / cc: what the
\* marshaller of that argument does ("None": argument is None, "ok", "bad").
NoArgs ==
    [wf |-> TRUE, mods |-> "-", attrs |-> "-", sc |-> "None", cc |-> "None",
     mech |-> "-", timeout |-> 0 - 1000, add_extop |-> FALSE,
     optcls |-> "-", optval |-> "-"]

ArgsOf(op) ==
    {[NoArgs EXCEPT !.wf = FALSE]}
    \cup
    CASE op \in CtrlOps \cup {"unbind_ext"} ->
            {[NoArgs EXCEPT !.sc = s, !.cc = c] :
                s \in {"None", "ok", "bad"}, c \in {"None", "ok", "bad"}}
      [] op \in ModOps ->
            {[NoArgs EXCEPT !.mods = m, !.sc = s, !.cc = c] :
                m \in {"ok", "bad"}, s \in {"None", "ok", "bad"},
                c \in {"None", "ok", "bad"}}
      [] op = "search_ext" ->
            {[NoArgs EXCEPT !.attrs = m, !.sc = s, !.cc = c] :
                m \in {"None", "ok", "bad"}, s \in {"None", "ok", "bad"},
                c \in {"None", "ok", "bad"}}
      [] op = "sasl_interactive_bind_s" ->
            {[NoArgs EXCEPT !.mech = m, !.sc = s, !.cc = c] :
                m \in {"ok", "bad"}, s \in {"None", "ok", "bad"},
                c \in {"None", "ok", "bad"}}
      [] op = "start_tls_s" -> {NoArgs}
      [] op = "result4" ->
            {[NoArgs EXCEPT !.timeout = to, !.add_extop = x] :
                to \in Timeouts, x \in BOOLEAN}
      [] op = "set_option" ->
            {[NoArgs EXCEPT !.optcls = c, !.optval = v] :
                c \in OptClasses, v \in {"ok", "bad"}}
      [] OTHER ->
            {[NoArgs EXCEPT !.optcls = c] : c \in OptClasses}

\* The calls a thread can make: a method and its arguments.
CallsOf(ops) == UNION {{<<op, a>> : a \in ArgsOf(op)} : op \in ops}
Calls == CallsOf(Ops)

\* A value returned to the caller.
Val(form, n) == [form |-> form, n |-> n]
NoVal == Val("-", 0)

\* The locals of a running handler.
NoFrame ==
    [op |-> "-", a |-> NoArgs, phase |-> "-", held |-> FALSE, rc |-> 0,
     res_type |-> 0, msg |-> NoMsg, result |-> 0, saved |-> NULL,
     res |-> NoRes, marsh |-> {}, neng |-> 0, validIn |-> TRUE,
     valuestr |-> FALSE, ctrlfail |-> FALSE, cred |-> FALSE]

\* What the last call returned, with the observations made during it; NoRet
\* while a call is running.
NoRet ==
    [op |-> "-", a |-> NoArgs, validIn |-> TRUE, exc |-> NoExc, val |-> NoVal,
     res |-> NoRes, marsh |-> {}, neng |-> 0]

\* not_valid(l): true, with the exception set, when the handle is not valid.
not_valid_never(v) == FALSE
not_valid(v) == ~v

\* PyArg_ParseTuple of a handler refuses the arguments.
ParseFails_never(a) == FALSE
ParseFails(a) == ~a.wf

\* "if (rc == LDAP_SUCCESS) valuestr = LDAPberval_to_object(retdata)"
\* (LDAPObject.c:1153-1155): whether l_ldap_result4 makes the value object.
ValueDecoded_asked(rc, add_extop) == rc = LDAP_SUCCESS /\ add_extop
ValueDecoded(rc, add_extop) == rc = LDAP_SUCCESS

ConnInvalid == ExcString(LDAPexception_class, "LDAP connection invalid")
ArgError == ExcString("TypeError", "PyArg_ParseTuple")
MarshalError(what) == ExcString("TypeError", what)
ValueError(what) == ExcString("ValueError", what)

\* The outcome of a stretch of handler code run while the thread holds the
\* execution context: it returns to the caller ("ret"), reaches the next
\* LDAP_BEGIN_ALLOW_THREADS ("begin") or calls the engine directly ("held").
Ret(fr, exc, val) == [k |-> "ret", fr |-> fr, exc |-> exc, val |-> val]
Raise(fr, exc) == Ret(fr, exc, NoVal)
Begin(fr, phase) == [k |-> "begin", fr |-> [fr EXCEPT !.phase = phase, !.held = FALSE],
                     exc |-> NoExc, val |-> NoVal]
Held(fr, phase) == [k |-> "held", fr |-> [fr EXCEPT !.phase = phase, !.held = TRUE],
                    exc |-> NoExc, val |-> NoVal]

Marshal(fr, routine) == [fr EXCEPT !.marsh = @ \cup {routine}]
FrAlloc(fr, k) == [fr EXCEPT !.res = Alloc(@, k)]
FrFree(fr, k) == [fr EXCEPT !.res = Free(@, k)]

\* The session state the mapper reads when LDAPerror(self->ldap) is called.
ErrIn(lderrno, lderror) ==
    [l |-> TRUE, m |-> NoMsg, oserrno |-> 0, lderrno |-> lderrno,
     lderror |-> lderror, ldmatched |-> "", optres |-> LDAP_OPT_SUCCESS,
     fail |-> "none", oob |-> NULL, nullstr |-> TRUE]

\* server_ldcs / client_ldcs: the two LDAPControls_from_object blocks every
\* dispatcher shares; undo: the structures freed when a later one fails.
WithServer(fr) ==
    IF fr.a.sc = "None" THEN fr
    ELSE IF fr.a.sc = "ok" THEN FrAlloc(Marshal(fr, "LDAPControls_from_object"), "server_ldcs")
    ELSE Marshal(fr, "LDAPControls_from_object")

WithClient(fr) ==
    IF fr.a.cc = "None" THEN fr
    ELSE IF fr.a.cc = "ok" THEN FrAlloc(Marshal(fr, "LDAPControls_from_object"), "client_ldcs")
    ELSE Marshal(fr, "LDAPControls_from_object")

\* The part of l_ldap_<op> from its entry to its engine call: PyArg_ParseTuple,
\* not_valid, the marshalling of the arguments.
Prologue(op, a, v) ==
    LET f0 == [NoFrame EXCEPT !.op = op, !.a = a, !.validIn = v]
        fm == IF op \in ModOps THEN Marshal(f0, "List_to_LDAPMods")
              ELSE IF op = "search_ext" THEN Marshal(f0, "attrs_from_List")
              ELSE f0
        f1 == IF op \in ModOps THEN FrAlloc(fm, "mods")
              ELSE IF op = "search_ext" /\ a.attrs = "ok" THEN FrAlloc(fm, "attrs")
              ELSE fm
        f2 == WithServer(f1)
        f3 == WithClient(f2)
    IN  IF ParseFails(a) THEN Raise(f0, ArgError)
        ELSE IF op \in DispatchOps \cup {"result4"}
        THEN IF not_valid(v) THEN Raise(f0, ConnInvalid)
             ELSE IF op = "result4" THEN Begin(f0, "ldap_result")
             ELSE IF op = "start_tls_s" THEN Begin(f0, "main")
             ELSE IF op \in ModOps /\ a.mods = "bad"
             THEN Raise(fm, MarshalError("List_to_LDAPMods"))
             ELSE IF op = "search_ext" /\ a.attrs = "bad"
             THEN Raise(fm, MarshalError("attrs_from_List"))
             ELSE IF a.sc = "bad"
             THEN Raise(FrFree(FrFree(f2, "mods"), "attrs"),
                        MarshalError("LDAPControls_from_object"))
             ELSE IF a.cc = "bad"
             THEN Raise(FrFree(FrFree(FrFree(f3, "mods"), "attrs"), "server_ldcs"),
                        MarshalError("LDAPControls_from_object"))
             ELSE IF op = "sasl_interactive_bind_s"
             THEN IF a.mech = "bad"
                  THEN Raise(f3, ExcString("AttributeError", "mech"))
                  ELSE Held(f3, "main")
             ELSE Begin(f3, "main")
        ELSE IF op = "set_option"
        THEN CASE a.optcls \in ReadOnlyOptions ->
                    Raise(f0, ValueError("read-only option"))
               [] a.optcls = "unknown" -> Raise(f0, ValueError("unknown option"))
               [] a.optcls = "bool" -> Begin(f0, "main")
               [] a.optcls = "controls" ->
                    IF a.optval = "bad"
                    THEN Raise(Marshal(f0, "LDAPControls_from_object"),
                               MarshalError("LDAPControls_from_object"))
                    ELSE Begin(FrAlloc(Marshal(f0, "LDAPControls_from_object"),
                                       "controls"), "main")
               [] OTHER ->
                    IF a.optval = "bad" THEN Raise(f0, ExcString("TypeError", "PyArg_Parse"))
                    ELSE Begin(f0, "main")
        ELSE IF a.optcls = "unknown" THEN Raise(f0, ValueError("unknown option"))
             ELSE Begin(f0, "main")

\* The "timeout == 0" test of l_ldap_result4 (LDAPObject.c:1116).
IsPoll_nonneg(timeout) == timeout >= 0
IsPoll(timeout) == timeout = 0

\* The tail of l_ldap_result4 from "if (result != LDAP_SUCCESS)" on
\* (LDAPObject.c:1165-1224).
l_ldap_result4_tail_lax(fr, lderrno, lderror) ==
    IF fr.result # LDAP_SUCCESS /\ fr.res_type # LDAP_RES_EXTENDED
    THEN Raise(FrFree(fr, "msg"), LDAPerror(ErrIn(lderrno, lderror)).exc)
    ELSE IF fr.ctrlfail
    THEN Begin(fr, "ldap_set_option")
    ELSE LET f1 == FrFree(FrFree(fr, "serverctrls"), "msg")
         IN  Ret(f1, NoExc,
                 Val(IF fr.a.add_extop THEN "env6" ELSE "env4", fr.res_type))

l_ldap_result4_tail(fr, lderrno, lderror) ==
    IF fr.result # LDAP_SUCCESS
    THEN Raise(FrFree(fr, "msg"), LDAPerror(ErrIn(lderrno, lderror)).exc)
    ELSE IF fr.ctrlfail
    THEN Begin(fr, "ldap_set_option")
    ELSE LET f1 == FrFree(FrFree(fr, "serverctrls"), "msg")
         IN  Ret(f1, NoExc,
                 Val(IF fr.a.add_extop THEN "env6" ELSE "env4", fr.res_type))

\* The part of a handler that runs after one of its engine calls returned.
Epilogue(fr, lderrno, lderror) ==
    LET op == fr.op
        freed == FrFree(FrFree(FrFree(FrFree(FrFree(fr, "mods"), "attrs"),
                     "server_ldcs"), "client_ldcs"), "controls")
        err == LDAPerror(ErrIn(lderrno, lderror)).exc
    IN  CASE op = "result4" /\ fr.phase = "ldap_result" ->
                IF fr.res_type < 0 THEN Raise(fr, err)
                ELSE IF fr.res_type = 0
                THEN IF IsPoll(fr.a.timeout)
                     THEN Ret(fr, NoExc,
                              Val(IF fr.a.add_extop THEN "none6" ELSE "none4", 0))
                     ELSE Raise(fr, LDAPerr(LDAP_TIMEOUT, FALSE, NULL).exc)
                ELSE IF fr.res_type \in {LDAP_RES_SEARCH_ENTRY,
                                         LDAP_RES_SEARCH_REFERENCE,
                                         LDAP_RES_INTERMEDIATE}
                THEN l_ldap_result4_tail(fr, lderrno, lderror)
                ELSE IF fr.res_type = LDAP_RES_EXTENDED
                THEN Begin(fr, "ldap_parse_extended_result")
                ELSE Begin(fr, "ldap_parse_result")
          [] op = "result4" /\ fr.phase = "ldap_parse_extended_result" ->
                Begin([FrFree(fr, "retdata") EXCEPT
                          !.valuestr = ValueDecoded(fr.rc, fr.a.add_extop)],
                      "ldap_parse_result")
          [] op = "result4" /\ fr.phase = "ldap_parse_result" ->
                l_ldap_result4_tail(fr, lderrno, lderror)
          [] op = "result4" /\ fr.phase = "ldap_set_option" ->
                Raise(FrFree(fr, "msg"), err)
          [] op = "set_option" ->
                IF fr.rc # LDAP_OPT_SUCCESS
                THEN Raise(freed, ValueError("option error"))
                ELSE Ret(freed, NoExc, Val("ok", 0))
          [] op = "get_option" ->
                IF fr.rc # LDAP_OPT_SUCCESS
                THEN Raise(fr, ValueError("option error"))
                ELSE Ret(fr, NoExc, Val("option", 0))
          [] op = "sasl_bind_s" ->
                IF fr.rc = LDAP_SASL_BIND_IN_PROGRESS
                THEN Ret(freed, NoExc,
                         IF fr.cred THEN Val("bytes", 0) ELSE Val("int", fr.rc))
                ELSE IF fr.rc # LDAP_SUCCESS THEN Raise(freed, err)
                ELSE Ret(freed, NoExc, Val("int", fr.rc))
          [] op = "whoami_s" ->
                IF fr.rc # LDAP_SUCCESS THEN Raise(FrFree(freed, "bvalue"), err)
                ELSE Ret(FrFree(freed, "bvalue"), NoExc, Val("str", 0))
          [] op = "start_tls_s" ->
                \* ldap_set_option(LDAP_OPT_ERROR_NUMBER, &ldaperror) precedes
                \* LDAPerror (LDAPObject.c:1370)
                IF fr.rc # LDAP_SUCCESS
                THEN Raise([fr EXCEPT !.neng = @ + 1],
                           LDAPerror(ErrIn(fr.rc, lderror)).exc)
                ELSE Ret(fr, NoExc, Val("None", 0))
          [] op \in {"unbind_ext", "abandon_ext"} ->
                IF fr.rc # LDAP_SUCCESS THEN Raise(freed, err)
                ELSE Ret(freed, NoExc, Val("None", 0))
          [] op = "dealloc" -> Ret(fr, NoExc, Val("None", 0))
          [] OTHER ->
                IF fr.rc # LDAP_SUCCESS THEN Raise(freed, err)
                ELSE Ret(freed, NoExc, Val("int", 1))

----------------------------------------------------------------------------
(* The engine (libldap), as far as the handlers observe it                 *)

Out0 ==
    [rc |-> 0, res_type |-> 0, msg |-> NoMsg, result |-> 0, cred |-> FALSE,
     ctrlfail |-> FALSE, got |-> {}]

\* What the engine call at the handler's current position can return.
EngineOutcomes(fr, msgs) ==
    CASE fr.op = "result4" /\ fr.phase = "ldap_result" ->
            {[Out0 EXCEPT !.res_type = 0 - 1, !.rc = LDAP_SERVER_DOWN],
             [Out0 EXCEPT !.res_type = 0]}
            \cup {[Out0 EXCEPT !.res_type = m.type, !.msg = m, !.got = {"msg"},
                               !.ctrlfail = c] :
                    m \in msgs, c \in {FALSE}}
            \cup {[Out0 EXCEPT !.res_type = m.type, !.msg = m, !.got = {"msg"},
                               !.ctrlfail = TRUE] :
                    m \in {x \in msgs : x.code = LDAP_SUCCESS}}
      [] fr.op = "result4" /\ fr.phase = "ldap_parse_extended_result" ->
            {[Out0 EXCEPT !.res_type = fr.res_type, !.msg = fr.msg,
                          !.ctrlfail = fr.ctrlfail, !.got = g] :
                g \in SUBSET {"retoid", "retdata"}}
            \cup {[Out0 EXCEPT !.res_type = fr.res_type, !.msg = fr.msg,
                               !.ctrlfail = fr.ctrlfail,
                               !.rc = LDAP_DECODING_ERROR]}
      [] fr.op = "result4" /\ fr.phase = "ldap_parse_result" ->
            {[Out0 EXCEPT !.res_type = fr.res_type, !.msg = fr.msg,
                          !.ctrlfail = fr.ctrlfail, !.result = fr.msg.code,
                          !.got = (IF fr.msg.nrefs > 0 THEN {"refs"} ELSE {})
                                  \cup (IF fr.msg.nctrls > 0 THEN {"serverctrls"}
                                        ELSE {})]}
      [] fr.op = "result4" /\ fr.phase = "ldap_set_option" ->
            {[Out0 EXCEPT !.res_type = fr.res_type, !.msg = fr.msg,
                          !.ctrlfail = fr.ctrlfail]}
      [] fr.op \in OptionOps ->
            {[Out0 EXCEPT !.rc = r] : r \in {LDAP_OPT_SUCCESS, LDAP_OPT_ERROR}}
      [] fr.op = "sasl_bind_s" ->
            {[Out0 EXCEPT !.rc = r] : r \in {LDAP_SUCCESS, LDAP_SERVER_DOWN}}
            \cup {[Out0 EXCEPT !.rc = LDAP_SASL_BIND_IN_PROGRESS, !.cred = c] :
                    c \in BOOLEAN}
      [] fr.op = "whoami_s" ->
            {[Out0 EXCEPT !.rc = LDAP_SUCCESS, !.got = {"bvalue"}],
             [Out0 EXCEPT !.rc = LDAP_SERVER_DOWN]}
      [] OTHER ->
            {[Out0 EXCEPT !.rc = r] : r \in {LDAP_SUCCESS, LDAP_SERVER_DOWN}}

\* ld_errno / ld_error of the session after the call.
EngineErrno(fr, o, old) ==
    CASE fr.op = "result4" /\ fr.phase = "ldap_result" ->
            IF o.res_type < 0 THEN o.rc ELSE old
      [] fr.op = "result4" /\ fr.phase \in {"ldap_parse_extended_result",
                                            "ldap_parse_result"} -> fr.msg.code
      [] fr.op = "result4" /\ fr.phase = "ldap_set_option" -> LDAP_NO_MEMORY
      [] fr.op \in OptionOps -> old
      [] OTHER -> o.rc

EngineError(fr, o, old) ==
    IF fr.op = "result4" /\ fr.phase \in {"ldap_parse_extended_result",
                                          "ldap_parse_result"}
    THEN fr.msg.diag ELSE old

\* The handler's locals after the engine call returned o.
AfterEngine(fr, o) ==
    [fr EXCEPT !.rc = o.rc, !.res_type = o.res_type, !.msg = o.msg,
               !.result = IF fr.phase = "ldap_parse_result" THEN o.result ELSE @,
               !.cred = o.cred, !.ctrlfail = o.ctrlfail, !.neng = @ + 1,
               !.res = [k \in ResKeys |-> IF k \in o.got THEN "live" ELSE @[k]]]

----------------------------------------------------------------------------
(* The modification-list marshaller, LDAPObject.c:74-261                   *)

\* Bounds of the lists handed to List_to_LDAPMods.
MaxMods == 2
MaxVals == 2

\* Pointers: 0 is NULL, a positive number names a block of the heap, UNINIT
\* is what a slot holds that was never written, WILD a non-null pointer that
\* names no block.
UNINIT == 0 - 1
WILD == 0 - 2

LDAP_MOD_ADD == 0
LDAP_MOD_DELETE == 1
LDAP_MOD_REPLACE == 2
LDAP_MOD_BVALUES == 128

\* The values of a tuple as Tuple_to_LDAPMod tells them apart: None, one
\* bytes object, an object that is no sequence (an int), a sequence whose
\* length cannot be taken (__getitem__ without __len__) and a sequence of n
\* items of which the first that is not bytes ("str") or cannot be fetched
\* ("nofetch") is the bad-th (0: all are bytes).
ValueForms ==
    {[kind |-> k, n |-> 0, bad |-> 0, badkind |-> "-"] :
        k \in {"None", "bytes", "int", "unsized"}}
    \cup {[kind |-> "seq", n |-> n, bad |-> 0, badkind |-> "-"] : n \in 0 .. MaxVals}
    \cup {[kind |-> "seq", n |-> n, bad |-> b, badkind |-> k] :
            n \in 1 .. MaxVals, b \in 1 .. MaxVals, k \in {"str", "nofetch"}}

\* The items of the list: one that PySequence_GetItem cannot fetch, one that
\* is no tuple, a tuple PyArg_ParseTuple rejects, and well-formed tuples.
NoValues == [kind |-> "None", n |-> 0, bad |-> 0, badkind |-> "-"]
Entries ==
    {[kind |-> k, type |-> "", vals |-> NoValues] :
        k \in {"nofetch", "nontuple", "badshape"}}
    \cup {[kind |-> "tuple", type |-> "cn", vals |-> v] :
            v \in {x \in ValueForms : x.bad <= x.n}}

SeqsUpTo(S, n) == UNION {[1 .. k -> S] : k \in 0 .. n}

\* The arguments of List_to_LDAPMods: the list (no sequence, a sequence
\* without length, or a sequence of entries) and no_op.  op: the operation
\* code the 3-tuples of the list carry (the 2-tuples of no_op carry none).
NoModIn == [kind |-> "-", items |-> <<>>, no_op |-> FALSE, op |-> 0]
ModForms ==
    {[no_op |-> TRUE, op |-> 0]}
    \cup {[no_op |-> FALSE, op |-> o] :
            o \in {LDAP_MOD_ADD, LDAP_MOD_DELETE, LDAP_MOD_REPLACE}}
ModInputs ==
    {[kind |-> k, items |-> <<>>, no_op |-> f.no_op, op |-> f.op] :
        k \in {"notseq", "nolen"}, f \in ModForms}
    \cup {[kind |-> "seq", items |-> l, no_op |-> f.no_op, op |-> f.op] :
            l \in SeqsUpTo(Entries, MaxMods), f \in ModForms}

\* A block of native memory: its slots (pointers), how often it was freed,
\* and the scalars it holds (mod_op; the bytes of mod_type or ldctl_oid;
\* where bv_val points; bv_len; ldctl_iscritical).
Block(kind, slots) ==
    [kind |-> kind, slots |-> slots, frees |-> 0, op |-> 0, ty |-> "", val |-> "-",
     len |-> 0, crit |-> 0]

\* PyMem_NEW(type, n): the new block's slots hold whatever the allocator left.
PyMem_NEW(h, kind, n) == Append(h, Block(kind, [k \in 1 .. n |-> UNINIT]))
PyMem_DEL(h, p) == [h EXCEPT ![p].frees = @ + 1]
Store(h, p, k, v) == [h EXCEPT ![p].slots[k] = v]

\* bv_val = PyBytes_AsString(item) (LDAPObject.c:157, 181): a pointer to the
\* buffer inside the caller's bytes object.
PyBytes_AsString_copy(item) == "owned"
PyBytes_AsString(item) == "caller"

\* bv_len = PyBytes_Size(item) (LDAPObject.c:156, 180).  The i-th value of an
\* entry is a bytes object of i bytes, which tells the values apart.
PyBytes_Size(item) == item

\* "if (nstrs == 0) lm->mod_bvalues[0] = NULL" (LDAPObject.c:184-185).
EmptyTerminated_skip(h, bv, nstrs) == h
EmptyTerminated(h, bv, nstrs) ==
    IF nstrs = 0 THEN [h EXCEPT ![bv].slots[1] = 0] ELSE h

\* The outcome of a marshalling routine: the heap, the pointer returned, the
\* exception set, and whether a slot was read that was never written or lies
\* outside its block (uninit) and whether a WILD pointer was freed (wild).
MOut(h, p, exc, uninit, wild) ==
    [heap |-> h, p |-> p, exc |-> exc, uninit |-> uninit, wild |-> wild]

\* A read of slot k (counted from 1) of block p.  Outside the block, and in
\* a slot never written, the read yields junk.
Load(h, p, k, junk) ==
    IF k > Len(h[p].slots) \/ h[p].slots[k] = UNINIT
    THEN [v |-> junk, uninit |-> TRUE]
    ELSE [v |-> h[p].slots[k], uninit |-> FALSE]

\* The loop of LDAPMod_DEL: "for (i = 0; lm->mod_bvalues[i]; i++)
\* PyMem_DEL(lm->mod_bvalues[i])".  Freeing a WILD pointer corrupts the
\* allocator; the loop is followed no further.
RECURSIVE FreeValues(_, _, _, _)
FreeValues(h, bv, k, junk) ==
    LET r == Load(h, bv, k, junk)
    IN  IF r.v = 0 THEN MOut(h, 0, "", r.uninit, FALSE)
        ELSE IF r.v = WILD THEN MOut(h, 0, "", r.uninit, TRUE)
        ELSE LET rest == FreeValues(PyMem_DEL(h, r.v), bv, k + 1, junk)
             IN  [rest EXCEPT !.uninit = @ \/ r.uninit]

\* LDAPMod_DEL(lm): slot 1 of an LDAPMod is mod_type, slot 2 mod_bvalues.
LDAPMod_DEL(h, lm, junk) ==
    LET h1 == IF h[lm].slots[1] # 0 THEN PyMem_DEL(h, h[lm].slots[1]) ELSE h
        bv == h[lm].slots[2]
    IN  IF bv = 0 THEN MOut(PyMem_DEL(h1, lm), 0, "", FALSE, FALSE)
        ELSE LET r == FreeValues(h1, bv, 1, junk)
             IN  [r EXCEPT !.heap = PyMem_DEL(PyMem_DEL(r.heap, bv), lm)]

\* The loop of the sequence branch of Tuple_to_LDAPMod (LDAPObject.c:165-183)
\* from item i on.  fail: the allocation of this call that fails (counted
\* from 1; the values' allocations start at 4).
RECURSIVE FillValues(_, _, _, _, _, _, _)
FillValues(h, lm, bv, v, i, fail, junk) ==
    IF i > v.n THEN MOut(h, lm, "", FALSE, FALSE)
    ELSE IF fail = 3 + i
    THEN LET d == LDAPMod_DEL(Store(h, bv, i, 0), lm, junk)
         IN  [d EXCEPT !.exc = "MemoryError"]
    ELSE LET b == Len(h) + 1
             h1 == Store(Store(PyMem_NEW(h, "berval", 0), bv, i, b), bv, i + 1, 0)
         IN  IF v.bad = i
             THEN LET d == LDAPMod_DEL(h1, lm, junk)
                  IN  [d EXCEPT !.exc = IF v.badkind = "str" THEN "TypeError"
                                        ELSE "IndexError"]
             ELSE FillValues([h1 EXCEPT ![b].val = PyBytes_AsString(i),
                                        ![b].len = PyBytes_Size(i)],
                             lm, bv, v, i + 1, fail, junk)

\* Tuple_to_LDAPMod(tup, no_op).  A sequence without length makes
\* PySequence_Length return -1: PyMem_NEW(struct berval *, 0) yields a block
\* without slots, the loop and the "nstrs == 0" store are skipped, and the
\* record is returned with the TypeError of PySequence_Length pending.
Tuple_to_LDAPMod(h, e, no_op, op, fail, junk) ==
    IF e.kind \in {"nontuple", "badshape"} THEN MOut(h, 0, "TypeError", FALSE, FALSE)
    ELSE IF fail = 1 THEN MOut(h, 0, "MemoryError", FALSE, FALSE)
    ELSE
    LET lm == Len(h) + 1
        h1 == [Store(PyMem_NEW(h, "LDAPMod", 2), lm, 2, 0) EXCEPT
                  ![lm].op = (IF no_op THEN 0 ELSE op) + LDAP_MOD_BVALUES]
        ty == lm + 1
        h2 == [Store(PyMem_NEW(h1, "mod_type", 0), lm, 1, ty) EXCEPT ![ty].ty = e.type]
        bv == lm + 2
        v == e.vals
    IN  IF fail = 2
        THEN [LDAPMod_DEL(Store(h1, lm, 1, 0), lm, junk) EXCEPT !.exc = "MemoryError"]
        ELSE IF v.kind \in {"None", "int"} THEN MOut(h2, lm, "", FALSE, FALSE)
        ELSE IF fail = 3
        THEN [LDAPMod_DEL(h2, lm, junk) EXCEPT !.exc = "MemoryError"]
        ELSE IF v.kind = "bytes"
        THEN LET h3 == Store(PyMem_NEW(h2, "mod_bvalues", 2), lm, 2, bv)
                 b == bv + 1
                 h4 == Store(Store(PyMem_NEW(h3, "berval", 0), bv, 1, b), bv, 2, 0)
             IN  IF fail = 4
                 THEN [LDAPMod_DEL(Store(h3, bv, 1, 0), lm, junk) EXCEPT
                          !.exc = "MemoryError"]
                 ELSE MOut([h4 EXCEPT ![b].val = PyBytes_AsString(1),
                                      ![b].len = PyBytes_Size(1)], lm, "",
                           FALSE, FALSE)
        ELSE IF v.kind = "unsized"
        THEN MOut(Store(PyMem_NEW(h2, "mod_bvalues", 0), lm, 2, bv), lm,
                  "TypeError", FALSE, FALSE)
        ELSE LET h3 == Store(PyMem_NEW(h2, "mod_bvalues", v.n + 1), lm, 2, bv)
                 r == FillValues(h3, lm, bv, v, 1, fail, junk)
             IN  IF r.p = 0 THEN r
                 ELSE [r EXCEPT !.heap = EmptyTerminated(r.heap, bv, v.n)]

\* The allocations one call of Tuple_to_LDAPMod can make: the record, the
\* type, the array and the value descriptors.
MaxAllocs == 3 + MaxVals

\* LDAPMods_DEL(lms): "for (lmp = lms; *lmp; lmp++) LDAPMod_DEL(*lmp)", then
\* the array, from slot k on.
RECURSIVE LDAPMods_DEL(_, _, _, _)
LDAPMods_DEL(h, p, k, junk) ==
    LET r == Load(h, p, k, junk)
    IN  IF r.v = 0 THEN MOut(PyMem_DEL(h, p), 0, "", r.uninit, FALSE)
        ELSE IF r.v = WILD THEN MOut(h, 0, "", r.uninit, TRUE)
        ELSE LET d == LDAPMod_DEL(h, r.v, junk)
                 rest == IF d.wild THEN d ELSE LDAPMods_DEL(d.heap, p, k + 1, junk)
             IN  [rest EXCEPT !.uninit = @ \/ r.uninit \/ d.uninit]

\* What a run of a marshaller has done so far: the exception set, whether
\* it read an unwritten slot or freed a WILD pointer, whether it wrote
\* outside a block (oob), what it returned (res: "-" nothing yet, "list" the
\* list out, "str", "NULL"), and how often it called the engine.
NoMres ==
    [exc |-> "", uninit |-> FALSE, wild |-> FALSE, oob |-> FALSE, res |-> "-",
     out |-> <<>>, calls |-> 0]

\* List_to_LDAPMods(list, no_op) up to its loop (LDAPObject.c:224-240).
ModsEnter ==
    /\ mpc = "entry"
    /\ IF modIn.kind \in {"notseq", "nolen"}
       THEN /\ mpc' = "failed"
            /\ mres' = [mres EXCEPT !.exc = "TypeError"]
            /\ UNCHANGED <<heap, lms, cur>>
       ELSE \/ /\ mpc' = "failed"
               /\ mres' = [mres EXCEPT !.exc = "MemoryError"]
               /\ UNCHANGED <<heap, lms, cur>>
            \/ /\ mpc' = "loop"
               /\ heap' = PyMem_NEW(heap, "lms", Len(modIn.items) + 1)
               /\ lms' = Len(heap) + 1
               /\ cur' = 1
               /\ UNCHANGED mres
    /\ UNCHANGED <<modIn, hvars, evars>>

\* One pass of the loop (LDAPObject.c:242-251): lms[i] = NULL, the item is
\* fetched and converted.
ModsItem ==
    /\ mpc = "loop" /\ cur <= Len(modIn.items)
    /\ LET e == modIn.items[cur]
           h0 == Store(heap, lms, cur, 0)
       IN  IF e.kind = "nofetch"
           THEN /\ heap' = h0
                /\ mpc' = "error"
                /\ mres' = [mres EXCEPT !.exc = "IndexError"]
                /\ cur' = cur
           ELSE \E fail \in 0 .. MaxAllocs : \E junk \in {0, WILD} :
                  LET r == Tuple_to_LDAPMod(h0, e, modIn.no_op, modIn.op, fail, junk)
                  IN  /\ heap' = Store(r.heap, lms, cur, r.p)
                      /\ mres' = [mres EXCEPT
                                     !.exc = IF r.exc # "" THEN r.exc ELSE @,
                                     !.uninit = @ \/ r.uninit,
                                     !.wild = @ \/ r.wild]
                      /\ mpc' = IF r.p = 0 THEN "error" ELSE "loop"
                      /\ cur' = IF r.p = 0 THEN cur ELSE cur + 1
    /\ UNCHANGED <<modIn, lms, hvars, evars>>

\* The loop ends (LDAPObject.c:252-253): lms[len] = NULL; return lms.
ModsReturn ==
    /\ mpc = "loop" /\ cur = Len(modIn.items) + 1
    /\ heap' = Store(heap, lms, cur, 0)
    /\ mpc' = "returned"
    /\ UNCHANGED <<modIn, lms, cur, mres, hvars, evars>>

\* error: LDAPMods_DEL(lms); return NULL (LDAPObject.c:257-260).
ModsError ==
    /\ mpc = "error"
    /\ \E junk \in {0, WILD} :
          LET d == LDAPMods_DEL(heap, lms, 1, junk)
          IN  /\ heap' = d.heap
              /\ mres' = [mres EXCEPT !.uninit = @ \/ d.uninit,
                                      !.wild = @ \/ d.wild]
    /\ mpc' = "failed"
    /\ UNCHANGED <<modIn, lms, cur, hvars, evars>>

\* The caller is done with the array: LDAPMods_DEL(mods) after the engine
\* call (l_ldap_add_ext, LDAPObject.c:516; l_ldap_modify_ext, :1009).
ModsRelease ==
    /\ mpc = "returned"
    /\ \E junk \in {0, WILD} :
          LET d == LDAPMods_DEL(heap, lms, 1, junk)
          IN  /\ heap' = d.heap
              /\ mres' = [mres EXCEPT !.uninit = @ \/ d.uninit,
                                      !.wild = @ \/ d.wild]
    /\ mpc' = "released"
    /\ UNCHANGED <<modIn, lms, cur, hvars, evars>>

----------------------------------------------------------------------------
(* Control lists: LDAPControls_from_object, LDAPControls_to_List           *)

MaxCtrls == 2

Oids == {"1.2.840.113556.1.4.319", "2.16.840.1.113730.3.4.2"}

\* The third member of a control tuple as Tuple_to_LDAPControl tells them
\* apart: None, a bytes object (of len bytes), anything else ("str").
NoCtrlValue == [kind |-> "None", len |-> 0]
CtrlValues ==
    {NoCtrlValue, [kind |-> "str", len |-> 0]}
    \cup {[kind |-> "bytes", len |-> n] : n \in 0 .. 1}

\* The items of a control list: one that PySequence_GetItem cannot fetch,
\* one that is no tuple, a tuple PyArg_ParseTuple rejects, and triples
\* (oid, criticality, value).
CtrlEntries ==
    {[kind |-> k, oid |-> "", crit |-> 0, val |-> NoCtrlValue] :
        k \in {"nofetch", "nontuple", "badshape"}}
    \cup {[kind |-> "tuple", oid |-> o, crit |-> c, val |-> v] :
            o \in Oids, c \in {0, 1}, v \in CtrlValues}

\* The controls argument of a dispatcher: None ("null"), an object that is
\* no sequence, a sequence without length, or a sequence of items.
CtrlInputs ==
    {[kind |-> k, items |-> <<>>] : k \in {"null", "notseq", "nolen"}}
    \cup {[kind |-> "seq", items |-> l] : l \in SeqsUpTo(CtrlEntries, MaxCtrls)}

\* The "b" unit of PyArg_ParseTuple stores the number in a char
\* (ldapcontrol.c:67, 79); Py_BuildValue("b") reads the char back as an int.
CharOf(c) == IF c % 256 >= 128 THEN (c % 256) - 256 ELSE c % 256

\* berbytes of Tuple_to_LDAPControl (ldapcontrol.c:102-109).
Berbytes_empty(v) ==
    [val |-> PyBytes_AsString(v.len), len |-> PyBytes_Size(v.len)]
Berbytes(v) ==
    IF v.kind = "None" THEN [val |-> "NULL", len |-> 0]
    ELSE [val |-> PyBytes_AsString(v.len), len |-> PyBytes_Size(v.len)]

\* LDAPControl_DEL(lc): slot 1 of an LDAPControl is ldctl_oid.
LDAPControl_DEL(h, lc) ==
    IF lc = 0 THEN h
    ELSE PyMem_DEL(IF h[lc].slots[1] # 0 THEN PyMem_DEL(h, h[lc].slots[1]) ELSE h,
                   lc)

\* Tuple_to_LDAPControl(tup).  fail: the allocation of this call that fails
\* (1 the record, 2 the copy of the oid, 0 none).
Tuple_to_LDAPControl(h, e, fail) ==
    IF e.kind \in {"nontuple", "badshape"} THEN MOut(h, 0, "TypeError", FALSE, FALSE)
    ELSE IF fail = 1 THEN MOut(h, 0, "MemoryError", FALSE, FALSE)
    ELSE
    LET lc == Len(h) + 1
        h1 == [PyMem_NEW(h, "LDAPControl", 1) EXCEPT ![lc].crit = CharOf(e.crit)]
        oid == lc + 1
        h2 == [Store(PyMem_NEW(h1, "ldctl_oid", 0), lc, 1, oid) EXCEPT
                  ![oid].ty = e.oid]
        bb == Berbytes(e.val)
    IN  IF fail = 2
        THEN MOut(LDAPControl_DEL(Store(h1, lc, 1, 0), lc), 0, "MemoryError",
                  FALSE, FALSE)
        ELSE IF e.val.kind = "str"
        THEN MOut(LDAPControl_DEL(h2, lc), 0, "TypeError", FALSE, FALSE)
        ELSE MOut([h2 EXCEPT ![lc].val = bb.val, ![lc].len = bb.len], lc, "",
                  FALSE, FALSE)

\* LDAPControl_List_DEL(lcs): "for (lcp = lcs; *lcp; lcp++)
\* LDAPControl_DEL(*lcp)", then the array, from slot k on.
RECURSIVE LDAPControl_List_DEL(_, _, _, _)
LDAPControl_List_DEL(h, p, k, junk) ==
    IF p = 0 THEN MOut(h, 0, "", FALSE, FALSE)
    ELSE LET r == Load(h, p, k, junk)
         IN  IF r.v = 0 THEN MOut(PyMem_DEL(h, p), 0, "", r.uninit, FALSE)
             ELSE IF r.v = WILD THEN MOut(h, 0, "", r.uninit, TRUE)
             ELSE LET rest == LDAPControl_List_DEL(LDAPControl_DEL(h, r.v), p,
                                                   k + 1, junk)
                  IN  [rest EXCEPT !.uninit = @ \/ r.uninit]

\* LDAPberval_to_object(bv): None for a value without bytes (bv_val NULL),
\* else the bytes object of bv_len bytes.
LDAPberval_to_object(b) ==
    IF b.val = "NULL" THEN NoCtrlValue ELSE [kind |-> "bytes", len |-> b.len]

\* "while (*tmp++) num_ctrls++" (ldapcontrol.c:176-178) from slot k on.
RECURSIVE CountControls(_, _, _, _)
CountControls(h, p, k, junk) ==
    IF p = 0 THEN [n |-> 0, uninit |-> FALSE, wild |-> FALSE]
    ELSE LET r == Load(h, p, k, junk)
         IN  IF r.v = 0 THEN [n |-> k - 1, uninit |-> r.uninit, wild |-> FALSE]
             ELSE IF r.v = WILD THEN [n |-> k - 1, uninit |-> r.uninit, wild |-> TRUE]
             ELSE LET rest == CountControls(h, p, k + 1, junk)
                  IN  [rest EXCEPT !.uninit = @ \/ r.uninit]

\* The tuple Py_BuildValue("sbO&", ...) makes of the i-th control
\* (ldapcontrol.c:185-188).
ControlTuple(h, p, i) ==
    LET ldc == h[p].slots[i]
    IN  [oid |-> h[h[ldc].slots[1]].ty, crit |-> h[ldc].crit,
         val |-> LDAPberval_to_object(h[ldc])]

\* The controls argument is None: the dispatcher leaves the array NULL
\* (LDAPObject.c:398).
CtrlNone ==
    /\ mpc = "entry" /\ modIn.kind = "null"
    /\ mpc' = "returned"
    /\ UNCHANGED <<modIn, heap, lms, cur, mres, hvars, evars>>

\* LDAPControls_from_object(list, &ldcs) up to its loop (ldapcontrol.c:132-
\* 144).  A sequence without length makes PySequence_Length return -1: the
\* array has no slot, the loop is skipped, "ldcs[len] = NULL" writes in front
\* of the block, and 1 is returned with the TypeError pending.
CtrlEnter ==
    /\ mpc = "entry" /\ modIn.kind # "null"
    /\ IF modIn.kind = "notseq"
       THEN /\ mpc' = "failed"
            /\ mres' = [mres EXCEPT !.exc = "TypeError"]
            /\ UNCHANGED <<heap, lms, cur>>
       ELSE \/ /\ mpc' = "failed"
               /\ mres' = [mres EXCEPT !.exc = "MemoryError"]
               /\ UNCHANGED <<heap, lms, cur>>
            \/ /\ modIn.kind = "nolen"
               /\ heap' = PyMem_NEW(heap, "ldcs", 0)
               /\ lms' = Len(heap) + 1
               /\ mres' = [mres EXCEPT !.exc = "TypeError", !.oob = TRUE]
               /\ mpc' = "returned"
               /\ UNCHANGED cur
            \/ /\ modIn.kind = "seq"
               /\ heap' = PyMem_NEW(heap, "ldcs", Len(modIn.items) + 1)
               /\ lms' = Len(heap) + 1
               /\ cur' = 1
               /\ mpc' = "loop"
               /\ UNCHANGED mres
    /\ UNCHANGED <<modIn, hvars, evars>>

\* One pass of the loop (ldapcontrol.c:146-162).  On a failure the array is
\* given back ("PyMem_DEL(ldcs); return 0").
CtrlItem ==
    /\ mpc = "loop" /\ cur <= Len(modIn.items)
    /\ LET e == modIn.items[cur]
       IN  IF e.kind = "nofetch"
           THEN /\ heap' = PyMem_DEL(heap, lms)
                /\ mpc' = "failed"
                /\ mres' = [mres EXCEPT !.exc = "IndexError"]
                /\ cur' = cur
           ELSE \E fail \in 0 .. 2 :
                  LET r == Tuple_to_LDAPControl(heap, e, fail)
                  IN  IF r.p = 0
                      THEN /\ heap' = PyMem_DEL(r.heap, lms)
                           /\ mpc' = "failed"
                           /\ mres' = [mres EXCEPT !.exc = r.exc]
                           /\ cur' = cur
                      ELSE /\ heap' = Store(r.heap, lms, cur, r.p)
                           /\ mpc' = "loop"
                           /\ cur' = cur + 1
                           /\ UNCHANGED mres
    /\ UNCHANGED <<modIn, lms, hvars, evars>>

\* The loop ends (ldapcontrol.c:164-166): ldcs[len] = NULL; return 1.
CtrlReturn ==
    /\ mpc = "loop" /\ cur = Len(modIn.items) + 1
    /\ heap' = Store(heap, lms, cur, 0)
    /\ mpc' = "returned"
    /\ UNCHANGED <<modIn, lms, cur, mres, hvars, evars>>

\* LDAPControls_to_List(ldcs) (ldapcontrol.c:169-196).  fail: the object
\* that cannot be made (1 the list, 1 + i the i-th tuple, 0 none).
CtrlDecode ==
    /\ mpc = "returned"
    /\ \E junk \in {0, WILD} : \E fail \in 0 .. MaxCtrls + 1 :
          LET c == CountControls(heap, lms, 1, junk)
          IN  IF c.wild
              THEN mres' = [mres EXCEPT !.uninit = TRUE, !.wild = TRUE]
              ELSE IF fail \in 1 .. c.n + 1
              THEN mres' = [mres EXCEPT !.exc = "MemoryError", !.res = "NULL",
                                        !.uninit = @ \/ c.uninit]
              ELSE mres' = [mres EXCEPT
                              !.res = "list",
                              !.out = [i \in 1 .. c.n |-> ControlTuple(heap, lms, i)],
                              !.uninit = @ \/ c.uninit]
    /\ mpc' = "decoded"
    /\ UNCHANGED <<modIn, heap, lms, cur, hvars, evars>>

\* The caller is done with the array: LDAPControl_List_DEL(ldcs)
\* (LDAPObject.c:414).
CtrlRelease ==
    /\ mpc \in {"returned", "decoded"}
    /\ \E junk \in {0, WILD} :
          LET d == LDAPControl_List_DEL(heap, lms, 1, junk)
          IN  /\ heap' = d.heap
              /\ mres' = [mres EXCEPT !.uninit = @ \/ d.uninit,
                                      !.wild = @ \/ d.wild]
    /\ mpc' = "released"
    /\ UNCHANGED <<modIn, lms, cur, hvars, evars>>

----------------------------------------------------------------------------
(* Distinguished names: l_ldap_dn2str, l_ldap_str2dn                       *)

MaxRdns == 2
MaxAvas == 2
MaxStrLen == 2

\* The flags argument (LDAP_DN_FORMAT_LDAP, _LDAPV3, _LDAPV2 of ldap.h).
DnFlags == {0, 16, 32}

\* An item of the list given to dn2str, as the outer loop tells them apart:
\* one that cannot be fetched, one that is no sequence, a sequence without
\* length, and a sequence of n AVA items of which the bad-th is the first
\* that fails (0: none) and badkind says how: it cannot be fetched, is no
\* 3-tuple, has a member of the wrong type, holds text that has no UTF-8
\* form, or an encoding that does not fit a C long.
AvaFaults == {"nofetch", "nontuple", "badtype", "badutf8", "overflow"}
RdnForms ==
    {[kind |-> k, n |-> 0, bad |-> 0, badkind |-> "-"] :
        k \in {"nofetch", "notseq", "nolen"}}
    \cup {[kind |-> "seq", n |-> n, bad |-> 0, badkind |-> "-"] : n \in 0 .. MaxAvas}
    \cup {[kind |-> "seq", n |-> n, bad |-> b, badkind |-> k] :
            n \in 1 .. MaxAvas, b \in 1 .. MaxAvas, k \in AvaFaults}

\* The arguments of dn2str (the list) and of str2dn (the string, by its
\* length; None has length 0).
DnInputs ==
    {[fn |-> "dn2str", kind |-> k, items |-> <<>>, len |-> 0, flags |-> 0] :
        k \in {"notseq", "nolen"}}
    \cup {[fn |-> "dn2str", kind |-> "seq", items |-> l, len |-> 0, flags |-> 0] :
            l \in SeqsUpTo({r \in RdnForms : r.bad <= r.n}, MaxRdns)}
    \cup {[fn |-> "str2dn", kind |-> "str", items |-> <<>>, len |-> n, flags |-> f] :
            n \in 0 .. MaxStrLen, f \in DnFlags}

\* calloc(n, size): a new block whose slots are all NULL.
calloc(h, kind, n) == Append(h, Block(kind, [k \in 1 .. n |-> 0]))

\* free(p).
free(h, p) == [h EXCEPT ![p].frees = @ + 1]

\* The inner loop of _free_dn_structure (functions.c:172-182): slot 1 of an
\* AVA is la_attr.bv_val, slot 2 la_value.bv_val.
RECURSIVE FreeAvas(_, _, _)
FreeAvas(h, rdn, k) ==
    LET ava == h[rdn].slots[k]
    IN  IF ava = 0 THEN h
        ELSE LET h1 == IF h[ava].slots[1] # 0 THEN free(h, h[ava].slots[1]) ELSE h
                 h2 == IF h[ava].slots[2] # 0 THEN free(h1, h[ava].slots[2]) ELSE h1
             IN  FreeAvas(free(h2, ava), rdn, k + 1)

\* The outer loop of _free_dn_structure (functions.c:171-184).
RECURSIVE FreeRdns(_, _, _)
FreeRdns(h, dn, k) ==
    LET rdn == h[dn].slots[k]
    IN  IF rdn = 0 THEN h
        ELSE FreeRdns(free(FreeAvas(h, rdn, 1), rdn), dn, k + 1)

_free_dn_structure(h, dn) ==
    IF dn = 0 THEN h ELSE free(FreeRdns(h, dn, 1), dn)

\* The inner loop of l_ldap_dn2str (functions.c:259-327) from item j on.
\* fail: the allocation of this pass of the outer loop that fails, counted
\* from 1 after the RDN array (three for each AVA: the record, the name,
\* the value).  The result tells whether the loop ran to its end.
RECURSIVE FillAvas(_, _, _, _, _)
FillAvas(h, rdn, r, j, fail) ==
    IF j > r.n THEN [heap |-> h, ok |-> TRUE, exc |-> ""]
    ELSE IF r.bad = j /\ r.badkind = "nofetch"
    THEN [heap |-> h, ok |-> FALSE, exc |-> "IndexError"]
    ELSE IF r.bad = j /\ r.badkind \in {"nontuple", "badtype"}
    THEN [heap |-> h, ok |-> FALSE, exc |-> "TypeError"]
    ELSE IF r.bad = j /\ r.badkind = "badutf8"
    THEN [heap |-> h, ok |-> FALSE, exc |-> "UnicodeEncodeError"]
    ELSE IF fail = 3 * (j - 1) + 1
    THEN [heap |-> h, ok |-> FALSE, exc |-> "MemoryError"]
    ELSE
    LET ava == Len(h) + 1
        h1 == calloc(h, "ava", 2)
        h2 == Store(Append(h1, Block("la_attr", <<>>)), ava, 1, ava + 1)
        h3 == Store(Append(h2, Block("la_value", <<>>)), ava, 2, ava + 2)
    IN  IF fail = 3 * (j - 1) + 2
        THEN [heap |-> free(h1, ava), ok |-> FALSE, exc |-> "MemoryError"]
        ELSE IF fail = 3 * (j - 1) + 3
        THEN [heap |-> free(free(h2, ava + 1), ava), ok |-> FALSE,
              exc |-> "MemoryError"]
        ELSE IF r.bad = j
        THEN [heap |-> free(free(free(h3, ava + 1), ava + 2), ava), ok |-> FALSE,
              exc |-> "OverflowError"]
        ELSE FillAvas(Store(h3, rdn, j, ava), rdn, r, j + 1, fail)

\* The block ldap_dn2bv left in str.bv_val, 0 if there is none.
StrOf(h) ==
    IF \E p \in DOMAIN h : h[p].kind = "str"
    THEN CHOOSE p \in DOMAIN h : h[p].kind = "str"
    ELSE 0

\* error_cleanup of l_ldap_dn2str (functions.c:362-376).
error_cleanup(h, dn) ==
    LET h1 == _free_dn_structure(h, dn)
    IN  IF StrOf(h) # 0 THEN free(h1, StrOf(h)) ELSE h1

\* l_ldap_dn2str up to its loop (functions.c:214-234).
Dn2strEnter ==
    /\ mpc = "entry" /\ modIn.fn = "dn2str"
    /\ IF modIn.kind \in {"notseq", "nolen"}
       THEN /\ mpc' = "failed"
            /\ mres' = [mres EXCEPT !.exc = "TypeError"]
            /\ UNCHANGED <<heap, lms, cur>>
       ELSE \/ /\ mpc' = "failed"
               /\ mres' = [mres EXCEPT !.exc = "MemoryError"]
               /\ UNCHANGED <<heap, lms, cur>>
            \/ /\ mpc' = "loop"
               /\ heap' = calloc(heap, "dn", Len(modIn.items) + 1)
               /\ lms' = Len(heap) + 1
               /\ cur' = 1
               /\ UNCHANGED mres
    /\ UNCHANGED <<modIn, hvars, evars>>

\* One pass of the outer loop (functions.c:236-335).  The RDN array lives in
\* the local rdn until "dn[i] = rdn" after the inner loop.
Dn2strRdn ==
    /\ mpc = "loop" /\ cur <= Len(modIn.items)
    /\ LET r == modIn.items[cur]
       IN  IF r.kind # "seq"
           THEN /\ mpc' = "error"
                /\ mres' = [mres EXCEPT !.exc = IF r.kind = "nofetch"
                                                THEN "IndexError" ELSE "TypeError"]
                /\ UNCHANGED <<heap, cur>>
           ELSE \E fail \in 0 .. 1 + 3 * MaxAvas :
                  IF fail = 1
                  THEN /\ mpc' = "error"
                       /\ mres' = [mres EXCEPT !.exc = "MemoryError"]
                       /\ UNCHANGED <<heap, cur>>
                  ELSE LET rdn == Len(heap) + 1
                           f == FillAvas(calloc(heap, "rdn", r.n + 1), rdn, r, 1,
                                         IF fail = 0 THEN 0 ELSE fail - 1)
                       IN  IF f.ok
                           THEN /\ heap' = Store(f.heap, lms, cur, rdn)
                                /\ cur' = cur + 1
                                /\ UNCHANGED <<mpc, mres>>
                           ELSE /\ heap' = f.heap
                                /\ mpc' = "error"
                                /\ mres' = [mres EXCEPT !.exc = f.exc]
                                /\ UNCHANGED cur
    /\ UNCHANGED <<modIn, lms, hvars, evars>>

\* After the loop (functions.c:337-360): ldap_dn2bv, the Python string, and
\* the release of the string and of the tree; on a failure error_cleanup.
Dn2strEngine ==
    /\ mpc = "loop" /\ cur = Len(modIn.items) + 1
    /\ \/ /\ heap' = error_cleanup(heap, lms)
          /\ mres' = [mres EXCEPT !.exc = "RuntimeError", !.calls = @ + 1]
          /\ mpc' = "failed"
       \/ LET h1 == Append(heap, Block("str", <<>>))
          IN  \/ /\ heap' = error_cleanup(h1, lms)
                 /\ mres' = [mres EXCEPT !.exc = "MemoryError", !.calls = @ + 1]
                 /\ mpc' = "failed"
              \/ /\ heap' = _free_dn_structure(free(h1, StrOf(h1)), lms)
                 /\ mres' = [mres EXCEPT !.res = "str", !.calls = @ + 1]
                 /\ mpc' = "done"
    /\ UNCHANGED <<modIn, lms, cur, hvars, evars>>

\* A failure inside the loop: goto error_cleanup (functions.c:362-376).
Dn2strError ==
    /\ mpc = "error"
    /\ heap' = error_cleanup(heap, lms)
    /\ mpc' = "failed"
    /\ UNCHANGED <<modIn, lms, cur, mres, hvars, evars>>

\* "if (str_len == 0)" of l_ldap_str2dn (functions.c:104).
EmptyString_never(len) == FALSE
EmptyString(len) == len = 0

\* The shapes of the tree ldap_bv2dn builds: the number of AVAs of each RDN.
TreeShapes == UNION {[1 .. k -> 1 .. MaxAvas] : k \in 1 .. MaxRdns}

\* l_ldap_str2dn up to its loop (functions.c:101-112): the empty string
\* gives PyList_New(0) at once; any other is handed to ldap_bv2dn, which
\* fails or leaves a tree in dn.
Str2dnEnter ==
    /\ mpc = "entry" /\ modIn.fn = "str2dn"
    /\ IF EmptyString(modIn.len)
       THEN /\ \/ mres' = [mres EXCEPT !.res = "list"]
               \/ mres' = [mres EXCEPT !.res = "NULL", !.exc = "MemoryError"]
            /\ mpc' = "done"
            /\ UNCHANGED <<heap, lms, cur>>
       ELSE \/ /\ mres' = [mres EXCEPT !.exc = LDAPexception_class, !.calls = @ + 1]
               /\ mpc' = "failed"
               /\ UNCHANGED <<heap, lms, cur>>
            \/ \E shape \in TreeShapes :
                  /\ heap' = Append(heap, Block("LDAPDN", shape))
                  /\ lms' = Len(heap) + 1
                  /\ mres' = [mres EXCEPT !.calls = @ + 1]
                  /\ mpc' = "rebuild"
                  /\ UNCHANGED cur
    /\ UNCHANGED <<modIn, hvars, evars>>

\* The number of Python objects the loop of l_ldap_str2dn makes or appends
\* for a tree: the list, and for each RDN its list and the append, and for
\* each AVA the tuple and the append.
RECURSIVE SumTo(_, _)
SumTo(s, k) == IF k = 0 THEN 0 ELSE s[k] + SumTo(s, k - 1)
RebuildSteps(shape) == 1 + 2 * Len(shape) + 2 * SumTo(shape, Len(shape))

\* The loop of l_ldap_str2dn and its exit (functions.c:114-160).  fail: the
\* step that fails (0 none); every way out passes "failed: ldap_dnfree(dn)".
Str2dnRebuild ==
    /\ mpc = "rebuild"
    /\ \E fail \in 0 .. RebuildSteps(heap[lms].slots) :
          mres' = IF fail = 0
                  THEN [mres EXCEPT !.res = "list", !.out = heap[lms].slots]
                  ELSE [mres EXCEPT !.res = "NULL", !.exc = "MemoryError"]
    /\ heap' = free(heap, lms)
    /\ mpc' = "done"
    /\ UNCHANGED <<modIn, lms, cur, hvars, evars>>

----------------------------------------------------------------------------
(* The control codecs: encode_rfc2696, decode_rfc2696,                     *)
(* encode_assertion_control (ldapcontrol.c:242-380)                        *)

MaxCookie == 2

\* Page sizes: an int of 32 bits ("i" of PyArg_ParseTuple), with the values
\* at which the length of the encoding changes.
PageSizes ==
    {(0 - 2147483647) - 1, 0 - 32769, 0 - 32768, 0 - 129, 0 - 128, 0 - 1, 0, 1,
     127, 128, 255, 256, 32767, 32768, 2147483647}

\* The arguments of encode_page_control: the size and the cookie, a bytes
\* object given by its bytes; and of encode_assertion_control: the filter.
CodecInputs ==
    {[fn |-> "encode_page_control", n |-> n, cookie |-> c] :
        n \in PageSizes, c \in SeqsUpTo({0, 4, 255}, MaxCookie)}
    \cup {[fn |-> "encode_assertion_control", n |-> 0, cookie |-> <<>>]}

\* ber_printf "i": the contents of an INTEGER, the shortest two's complement
\* form, most significant byte first.
RECURSIVE IntBytes(_)
IntBytes(n) ==
    IF n >= 0 - 128 /\ n <= 127 THEN <<n % 256>>
    ELSE Append(IntBytes(n \div 256), n % 256)

\* ber_scanf "i": the first byte carries the sign.
RECURSIVE BytesInt(_)
BytesInt(b) ==
    IF Len(b) = 1 THEN (IF b[1] >= 128 THEN b[1] - 256 ELSE b[1])
    ELSE 256 * BytesInt(SubSeq(b, 1, Len(b) - 1)) + b[Len(b)]

\* A tag, the length in the short form and the contents.
Tlv(tag, contents) == <<tag, Len(contents)>> \o contents

\* The cookie as encode_rfc2696 writes it (ldapcontrol.c:269-272): an OCTET
\* STRING in both branches, of no bytes for the empty cookie.
CookieTlv_omit(cookie) == IF Len(cookie) = 0 THEN <<>> ELSE Tlv(4, cookie)
CookieTlv(cookie) ==
    IF Len(cookie) = 0 THEN Tlv(4, <<>>) ELSE Tlv(4, cookie)

\* The value encode_rfc2696 returns: "{i", "o" or "O", "N}".
encode_rfc2696(size, cookie) ==
    Tlv(48, Tlv(2, IntBytes(size)) \o CookieTlv(cookie))

\* decode_rfc2696: ber_scanf(ber, "{iO", &count, &cookiep).  ok is FALSE
\* where ber_scanf returns LBER_ERROR.
decode_rfc2696(v) ==
    LET bad == [ok |-> FALSE, count |-> 0, cookie |-> <<>>]
    IN  IF Len(v) < 2 \/ v[1] # 48 \/ v[2] # Len(v) - 2 THEN bad
        ELSE LET s == SubSeq(v, 3, Len(v))
             IN  IF Len(s) < 3 \/ s[1] # 2 \/ s[2] < 1 \/ Len(s) < 2 + s[2] THEN bad
                 ELSE LET count == BytesInt(SubSeq(s, 3, 2 + s[2]))
                          r == SubSeq(s, 3 + s[2], Len(s))
                      IN  IF Len(r) < 2 \/ r[1] # 4 \/ Len(r) < 2 + r[2] THEN bad
                          ELSE [ok |-> TRUE, count |-> count,
                                cookie |-> SubSeq(r, 3, 2 + r[2])]

\* encode_page_control(size, cookie) is called.  The BerElement is a block
\* whose slots are the bytes written; ber_alloc_t, a ber_printf or
\* ber_flatten may fail; ber_free at endlbl.
PageEncode ==
    /\ mpc = "entry" /\ modIn.fn = "encode_page_control"
    /\ \/ /\ mres' = [mres EXCEPT !.exc = "MemoryError"]
          /\ mpc' = "failed"
          /\ UNCHANGED heap
       \/ /\ mres' = [mres EXCEPT !.exc = LDAPexception_class]
          /\ heap' = Append(heap, [Block("ber", <<>>) EXCEPT !.frees = 1])
          /\ mpc' = "failed"
       \/ LET v == encode_rfc2696(modIn.n, modIn.cookie)
              o == LDAPberval_to_object([val |-> "owned", len |-> Len(v)])
          IN  /\ mres' = [mres EXCEPT !.res = o.kind, !.out = SubSeq(v, 1, o.len)]
              /\ heap' = Append(heap, [Block("ber", v) EXCEPT !.frees = 1])
              /\ mpc' = "encoded"
    /\ UNCHANGED <<modIn, lms, cur, hvars, evars>>

\* decode_page_control(value) is called with the bytes the encoder
\* returned.  ber_init or Py_BuildValue may fail; a value ber_scanf cannot
\* read raises the decoding error.  The cookie ber_scanf allocates for "O"
\* has a buffer whatever its length.
PageDecode ==
    /\ mpc = "encoded"
    /\ LET d == decode_rfc2696(mres.out)
           h1 == Append(heap, [Block("ber", mres.out) EXCEPT !.frees = 1])
       IN  \/ /\ mres' = [mres EXCEPT !.exc = "MemoryError", !.res = "NULL"]
              /\ UNCHANGED heap
           \/ /\ ~d.ok
              /\ mres' = [mres EXCEPT !.exc = "DECODING_ERROR", !.res = "NULL"]
              /\ heap' = h1
           \/ /\ d.ok
              /\ LET o == LDAPberval_to_object([val |-> "owned",
                                                len |-> Len(d.cookie)])
                 IN  mres' = [mres EXCEPT
                                !.res = "tuple",
                                !.out = <<d.count,
                                          IF o.kind = "bytes"
                                          THEN SubSeq(d.cookie, 1, o.len)
                                          ELSE o>>]
              /\ heap' = h1
    /\ mpc' = "decoded"
    /\ UNCHANGED <<modIn, lms, cur, hvars, evars>>

\* What encode_assertion_control does with the session when the builder
\* failed (ldapcontrol.c:362-367).
BuilderFailed_late == <<"ldap_unbind_ext", "LDAPerror">>
BuilderFailed == <<"LDAPerror", "ldap_unbind_ext">>

\* The number of times step s stands in the log.
Count(log, s) == Cardinality({k \in DOMAIN log : log[k] = s})

\* encode_assertion_control up to the builder (ldapcontrol.c:345-357): the
\* argument is parsed and ldap_create makes the session, a block of the
\* heap.  mres.out is the log of what was done with the session.
AssertCreate ==
    /\ mpc = "entry" /\ modIn.fn = "encode_assertion_control"
    /\ \/ /\ mres' = [mres EXCEPT !.exc = "TypeError"]
          /\ mpc' = "failed"
          /\ UNCHANGED <<heap, lms>>
       \/ /\ mres' = [mres EXCEPT !.exc = LDAPexception_class]
          /\ mpc' = "failed"
          /\ UNCHANGED <<heap, lms>>
       \/ /\ heap' = Append(heap, Block("LDAP", <<>>))
          /\ lms' = Len(heap) + 1
          /\ mres' = [mres EXCEPT !.out = <<"ldap_create">>]
          /\ mpc' = "created"
    /\ UNCHANGED <<modIn, cur, hvars, evars>>

\* The rest of encode_assertion_control (ldapcontrol.c:359-379): the
\* builder, and the release of the session on either outcome.
AssertBuild ==
    /\ mpc = "created"
    /\ LET built == Append(mres.out, "ldap_create_assertion_control_value")
           unbound == [heap EXCEPT ![lms].frees = @ + 1]
       IN  \/ /\ mres' = [mres EXCEPT !.exc = LDAPexception_class, !.res = "NULL",
                                      !.out = built \o BuilderFailed,
                                      !.calls = @ + 1]
              /\ heap' = unbound
              /\ mpc' = "failed"
           \/ /\ mres' = [mres EXCEPT !.res = "bytes",
                                      !.out = Append(built, "ldap_unbind_ext"),
                                      !.calls = @ + 1]
              /\ heap' = unbound
              /\ mpc' = "done"
    /\ UNCHANGED <<modIn, lms, cur, hvars, evars>>

----------------------------------------------------------------------------
(* The SASL interaction callback: interaction, py_ldap_sasl_interaction    *)
(* (LDAPObject.c:612-673)                                                  *)

MaxItems == 3

\* What the mechanism object's callback does for an item: it returns a bytes
\* object, raises, or returns an object that is no bytes object; and whether
\* strdup finds memory for the copy.
Replies == {"bytes", "raise", "nonbytes"}
SaslIds == <<"SASL_CB_USER", "SASL_CB_AUTHNAME", "SASL_CB_PASS", "SASL_CB_GETREALM">>

\* The array the engine passes in: the items, then the one whose id is
\* SASL_CB_LIST_END.
SaslInputs ==
    {[fn |-> "py_ldap_sasl_interaction",
      items |-> [k \in 1 .. Len(r) + 1 |->
                   IF k <= Len(r)
                   THEN [id |-> SaslIds[k], reply |-> r[k].reply, strdup |-> r[k].strdup]
                   ELSE [id |-> "SASL_CB_LIST_END", reply |-> "-", strdup |-> FALSE]]] :
        r \in SeqsUpTo([reply : Replies, strdup : BOOLEAN], MaxItems)}

\* interaction(flags, interact, SASLObject) after the callback was called:
\* its return code; crash where strdup is handed the NULL that
\* PyBytes_AsString returns for an object that is no bytes object.
Rc(rc) == [rc |-> rc, crash |-> FALSE]
Crash == [rc |-> 0, crash |-> TRUE]
interaction_lax(item) ==
    IF item.reply = "nonbytes" THEN Crash ELSE Rc(LDAP_SUCCESS)
interaction(item) ==
    IF item.reply = "raise" THEN Rc(LDAP_OPERATIONS_ERROR)
    ELSE IF item.reply = "nonbytes" THEN Crash
    ELSE IF ~item.strdup THEN Rc(LDAP_OPERATIONS_ERROR)
    ELSE Rc(LDAP_SUCCESS)

\* One turn of the loop of py_ldap_sasl_interaction, or its return: cur is
\* the index of interact, mres.out the ids the callback was called with,
\* mres.res the return code.
SaslInteract ==
    /\ mpc = "loop"
    /\ LET item == modIn.items[cur]
       IN  IF item.id = "SASL_CB_LIST_END"
           THEN /\ mres' = [mres EXCEPT !.res = LDAP_SUCCESS]
                /\ mpc' = "done"
                /\ UNCHANGED <<cur, heap>>
           ELSE LET r == interaction(item)
                    rc == r.rc
                    called == [mres EXCEPT !.out = Append(@, item.id),
                                           !.calls = @ + 1]
                IN  IF r.crash
                    THEN /\ mres' = called
                         /\ mpc' = "crashed"
                         /\ UNCHANGED <<cur, heap>>
                    ELSE IF rc # LDAP_SUCCESS
                    THEN /\ mres' = [called EXCEPT !.res = rc]
                         /\ mpc' = "done"
                         /\ UNCHANGED <<cur, heap>>
                    ELSE /\ mres' = called
                         /\ heap' = Append(heap, Block("result", <<>>))
                         /\ cur' = cur + 1
                         /\ mpc' = "loop"
    /\ UNCHANGED <<modIn, lms, hvars, evars>>

----------------------------------------------------------------------------
(* The actions of a caller thread                                          *)

\* Py_FatalError aborts the process: no thread takes another step.
Fatal == \E t \in Threads : pc[t] = "fatal"

InBracket == {"store", "engine", "load", "clear", "restore"}

\* LDAP_END_ALLOW_THREADS: "lo->_save = NULL" (pythonldap.h:121).
EndSlot_keep(s) == s
EndSlot(s) == NULL

\* LDAP_BEGIN_ALLOW_THREADS: the test "lo->_save != NULL" (pythonldap.h:112).
SlotBusy_never(s) == FALSE
SlotBusy(s) == s # NULL

\* LDAP_BEGIN_ALLOW_THREADS up to and including PyEval_SaveThread(): the test
\* of the slot, then the release of the execution context.  The store into
\* lo->_save follows in SaveStore, after the context has been released.
LDAP_BEGIN_ALLOW_THREADS(t, fr) ==
    /\ frame' = [frame EXCEPT ![t] = fr]
    /\ ret' = [ret EXCEPT ![t] = NoRet]
    /\ save' = save
    /\ IF SlotBusy(save)
       THEN /\ pc' = [pc EXCEPT ![t] = "fatal"]
            /\ gil' = t
       ELSE /\ pc' = [pc EXCEPT ![t] = "store"]
            /\ gil' = "free"

\* The handler code of thread t ran up to outcome out.
Advance(t, out) ==
    CASE out.k = "ret" ->
            /\ pc' = [pc EXCEPT ![t] = "idle"]
            /\ frame' = [frame EXCEPT ![t] = NoFrame]
            /\ ret' = [ret EXCEPT ![t] =
                        [op |-> out.fr.op, a |-> out.fr.a,
                         validIn |-> out.fr.validIn, exc |-> out.exc,
                         val |-> out.val, res |-> out.fr.res,
                         marsh |-> out.fr.marsh, neng |-> out.fr.neng]]
            /\ gil' = "free"
            /\ save' = save
      [] out.k = "begin" -> LDAP_BEGIN_ALLOW_THREADS(t, out.fr)
      [] OTHER ->
            /\ pc' = [pc EXCEPT ![t] = "engine"]
            /\ frame' = [frame EXCEPT ![t] = out.fr]
            /\ ret' = [ret EXCEPT ![t] = NoRet]
            /\ gil' = t
            /\ save' = save

\* The handle's fields after the handler code that produced out.
ValidAfter(out) ==
    IF out.k = "ret" /\ out.exc = NoExc /\ out.fr.op \in {"unbind_ext", "dealloc"}
    THEN FALSE ELSE valid

ErrnoAfter(out, old) ==
    IF out.k = "ret" /\ out.fr.op = "start_tls_s" /\ out.fr.rc # LDAP_SUCCESS
    THEN out.fr.rc ELSE old

\* A thread calls a method of the handle: the handler runs from its entry to
\* its return or to its first engine call.
Call(t, calls) ==
    /\ UNCHANGED <<evars, mvars>>
    /\ ~Fatal /\ alive
    /\ pc[t] = "idle" /\ gil = "free"
    /\ \E c \in calls : Advance(t, Prologue(c[1], c[2], valid))
    /\ UNCHANGED <<valid, ldap, alive, tstate, ld_errno, ld_error>>

\* LDAP_BEGIN_ALLOW_THREADS, second half: "lo->_save = <saved thread state>".
SaveStore(t) ==
    /\ UNCHANGED <<evars, mvars>>
    /\ ~Fatal /\ pc[t] = "store"
    /\ save' = tstate[t]
    /\ pc' = [pc EXCEPT ![t] = "engine"]
    /\ UNCHANGED <<valid, ldap, alive, gil, frame, ret, tstate, ld_errno, ld_error>>

\* The engine call of the handler's current position runs and returns.
Engine(t, msgs) ==
    /\ UNCHANGED <<evars, mvars>>
    /\ ~Fatal /\ pc[t] = "engine"
    /\ \E o \in EngineOutcomes(frame[t], msgs) :
        LET fr == AfterEngine(frame[t], o)
            en == EngineErrno(frame[t], o, ld_errno)
            er == EngineError(frame[t], o, ld_error)
        IN  /\ ldap' = IF fr.op \in {"unbind_ext", "dealloc"} THEN "unbound" ELSE ldap
            /\ ld_error' = er
            /\ IF fr.held
               THEN LET out == Epilogue(fr, en, er)
                    IN  /\ Advance(t, out)
                        /\ ld_errno' = ErrnoAfter(out, en)
                        /\ valid' = ValidAfter(out)
               ELSE /\ pc' = [pc EXCEPT ![t] = "load"]
                    /\ frame' = [frame EXCEPT ![t] = fr]
                    /\ ld_errno' = en
                    /\ UNCHANGED <<valid, gil, save, ret>>
    /\ UNCHANGED <<alive, tstate>>

\* LDAP_END_ALLOW_THREADS: "_save = lo->_save".
EndLoad(t) ==
    /\ UNCHANGED <<evars, mvars>>
    /\ ~Fatal /\ pc[t] = "load"
    /\ frame' = [frame EXCEPT ![t].saved = save]
    /\ pc' = [pc EXCEPT ![t] = "clear"]
    /\ UNCHANGED <<valid, ldap, alive, gil, save, ret, tstate, ld_errno, ld_error>>

\* LDAP_END_ALLOW_THREADS: "lo->_save = NULL".
EndClear(t) ==
    /\ UNCHANGED <<evars, mvars>>
    /\ ~Fatal /\ pc[t] = "clear"
    /\ save' = EndSlot(save)
    /\ pc' = [pc EXCEPT ![t] = "restore"]
    /\ UNCHANGED <<valid, ldap, alive, gil, frame, ret, tstate, ld_errno, ld_error>>

\* LDAP_END_ALLOW_THREADS: "PyEval_RestoreThread(_save)", then the handler
\* runs on to its return or to its next engine call.  PyEval_RestoreThread
\* of a NULL thread state is a fatal error of the interpreter.
Restore(t) ==
    /\ UNCHANGED <<evars, mvars>>
    /\ ~Fatal /\ pc[t] = "restore" /\ gil = "free"
    /\ IF frame[t].saved = NULL
       THEN /\ pc' = [pc EXCEPT ![t] = "fatal"]
            /\ gil' = t
            /\ UNCHANGED <<valid, ldap, alive, save, frame, ret, tstate,
                           ld_errno, ld_error>>
       ELSE LET out == Epilogue(frame[t], ld_errno, ld_error)
            IN  /\ tstate' = [tstate EXCEPT ![t] = frame[t].saved]
                /\ Advance(t, out)
                /\ valid' = ValidAfter(out)
                /\ ld_errno' = ErrnoAfter(out, ld_errno)
                /\ ldap' = IF out.k = "ret" /\ out.fr.op = "dealloc" THEN NULL ELSE ldap
                /\ alive' = IF out.k = "ret" /\ out.fr.op = "dealloc" THEN FALSE ELSE alive
                /\ UNCHANGED ld_error

\* dealloc(self): the last reference to the handle is dropped.
Dealloc(t) ==
    /\ UNCHANGED <<evars, mvars>>
    /\ ~Fatal /\ alive
    /\ \A u \in Threads : pc[u] = "idle"
    /\ gil = "free"
    /\ LET fr == [NoFrame EXCEPT !.op = "dealloc", !.validIn = valid]
       IN  IF ldap # NULL /\ valid
           THEN /\ Advance(t, Begin(fr, "main"))
                /\ UNCHANGED <<valid, ldap, alive>>
           ELSE /\ Advance(t, Ret(fr, NoExc, Val("None", 0)))
                /\ valid' = valid
                /\ ldap' = NULL
                /\ alive' = FALSE
    /\ UNCHANGED <<tstate, ld_errno, ld_error>>

\* newLDAPObject(l): ldap = l, _save = NULL, valid = 1.
HandleInit ==
    /\ valid = TRUE
    /\ ldap = "open"
    /\ save = NULL
    /\ alive = TRUE
    /\ gil = "free"
    /\ pc = [t \in Threads |-> "idle"]
    /\ frame = [t \in Threads |-> NoFrame]
    /\ ret = [t \in Threads |-> NoRet]
    /\ tstate = [t \in Threads |-> t]
    /\ ld_errno = LDAP_SUCCESS
    /\ ld_error = ""

HandleIdle ==
    /\ valid = TRUE /\ ldap = NULL /\ save = NULL /\ alive = FALSE
    /\ gil = "free"
    /\ pc = [t \in Threads |-> "idle"]
    /\ frame = [t \in Threads |-> NoFrame]
    /\ ret = [t \in Threads |-> NoRet]
    /\ tstate = [t \in Threads |-> t]
    /\ ld_errno = LDAP_SUCCESS /\ ld_error = ""

\* What a mapper call left behind: the function called, the exception it set
\* and the slots of errobjects it read.
NoOut == [fn |-> "-", exc |-> NoExc, idx |-> {}, rel |-> NoRel]

ErrIdle == errIn = ErrIn(0, "") /\ errOut = NoOut

ModsIdle ==
    /\ modIn = NoModIn /\ mpc = "idle" /\ heap = <<>> /\ lms = 0
    /\ cur = 0 /\ mres = NoMres

Init == HandleInit /\ ErrIdle /\ ModsIdle

Next ==
    \/ Call("T1", Calls)
    \/ SaveStore("T1")
    \/ Engine("T1", Messages)
    \/ EndLoad("T1")
    \/ EndClear("T1")
    \/ Restore("T1")
    \/ Dealloc("T1")

Spec == Init /\ [][Next]_vars

----------------------------------------------------------------------------
(* Two threads driving the same handle (SpecMT)                            *)

\* The calls and messages of the two-thread runs: the method that invalidates
\* the handle, called without controls, and result4, with its chain of engine
\* calls, polling or waiting forever.
CallsMT ==
    {c \in CallsOf({"unbind_ext", "result4"}) :
        /\ c[2].wf /\ c[2].sc = "None" /\ c[2].cc = "None"
        /\ c[2].timeout <= 0 /\ ~c[2].add_extop}

MessagesMT ==
    {m \in Messages :
        /\ m.type \in {LDAP_RES_SEARCH_ENTRY, LDAP_RES_SEARCH_RESULT}
        /\ m.code = LDAP_SUCCESS
        /\ m.diag = "" /\ m.nrefs = 0 /\ m.nctrls = 0}

NextMT ==
    \/ Call("T1", CallsMT)
    \/ SaveStore("T1")
    \/ Engine("T1", MessagesMT)
    \/ EndLoad("T1")
    \/ EndClear("T1")
    \/ Restore("T1")
    \/ Dealloc("T1")
    \/ Call("T2", CallsMT)
    \/ SaveStore("T2")
    \/ Engine("T2", MessagesMT)
    \/ EndLoad("T2")
    \/ EndClear("T2")
    \/ Restore("T2")
    \/ Dealloc("T2")

SpecMT == Init /\ [][NextMT]_vars

----------------------------------------------------------------------------
(* The error mapper applied to bounded inputs (SpecErr)                    *)

\* Result codes around and inside the table: one below its first slot, both
\* ends, registered codes, a code of the range without a class, one above.
CodeBelow == LDAP_ERROR_MIN - 1
CodeAbove == LDAP_ERROR_MAX + 1
ErrCodes ==
    {CodeBelow, LDAP_ERROR_MIN, LDAP_TIMEOUT, LDAP_SUCCESS, UnclassifiedCode,
     LDAP_REFERRAL, LDAP_NO_SUCH_OBJECT, LDAP_ERROR_MAX, CodeAbove}

ENOENT == 2

\* The inputs of a mapper call.  lderrno is the session's result code for
\* LDAPraise_for_message and the argument errnum for LDAPerr.  With a message
\* the mapper reads nothing of the session, which is then held fixed.
ErrFails == {"none", "dict", "ctrls", "ctrls_set", "matched", "info"}
ErrInputs ==
    [l : BOOLEAN,
     m : {NoMsg},
     oserrno : {0, ENOENT},
     lderrno : ErrCodes,
     lderror : {"", "no such entry"},
     ldmatched : {"", "dc=x"},
     optres : {LDAP_OPT_SUCCESS, LDAP_OPT_ERROR, LDAP_NO_MEMORY},
     fail : ErrFails,
     oob : {NULL, "garbage"},
     nullstr : BOOLEAN]
    \cup
    [l : BOOLEAN,
     m : [present : {TRUE}, type : {LDAP_RES_SEARCH_RESULT}, id : {1},
          code : ErrCodes, diag : {"", "no such entry"}, matched : {"", "dc=x"},
          nrefs : {0, 1}, nctrls : {0, 1}],
     oserrno : {0, ENOENT},
     lderrno : {LDAP_SUCCESS},
     lderror : {""},
     ldmatched : {""},
     optres : {LDAP_OPT_SUCCESS},
     fail : ErrFails,
     oob : {NULL, "garbage"},
     nullstr : BOOLEAN]

ErrInit == errIn \in ErrInputs /\ errOut = NoOut

\* LDAPerr(errnum) is called.
CallLDAPerr ==
    /\ errOut.fn = "-"
    /\ LET r == LDAPerr(errIn.lderrno, errIn.fail = "dict", errIn.oob)
       IN  errOut' = [fn |-> "LDAPerr", exc |-> r.exc, idx |-> r.idx, rel |-> NoRel]
    /\ UNCHANGED <<errIn, hvars, mvars>>

\* LDAPraise_for_message(l, m) is called.
CallLDAPraise_for_message ==
    /\ errOut.fn = "-"
    /\ LET r == LDAPraise_for_message(errIn)
       IN  errOut' = [fn |-> "LDAPraise_for_message", exc |-> r.exc, idx |-> r.idx,
                      rel |-> RaiseReleases(errIn)]
    /\ UNCHANGED <<errIn, hvars, mvars>>

InitErr == HandleIdle /\ ErrInit /\ ModsIdle

NextErr ==
    \/ CallLDAPerr
    \/ CallLDAPraise_for_message

SpecErr == InitErr /\ [][NextErr]_vars

----------------------------------------------------------------------------
(* List_to_LDAPMods applied to bounded lists (SpecMods)                    *)

InitMods ==
    /\ HandleIdle /\ ErrIdle
    /\ modIn \in ModInputs
    /\ mpc = "entry" /\ heap = <<>> /\ lms = 0 /\ cur = 0 /\ mres = NoMres

NextMods ==
    \/ ModsEnter
    \/ ModsItem
    \/ ModsReturn
    \/ ModsError
    \/ ModsRelease

SpecMods == InitMods /\ [][NextMods]_vars

----------------------------------------------------------------------------
(* LDAPControls_from_object applied to bounded lists (SpecCtrl)            *)

InitCtrl ==
    /\ HandleIdle /\ ErrIdle
    /\ modIn \in CtrlInputs
    /\ mpc = "entry" /\ heap = <<>> /\ lms = 0 /\ cur = 0 /\ mres = NoMres

NextCtrl ==
    \/ CtrlNone
    \/ CtrlEnter
    \/ CtrlItem
    \/ CtrlReturn
    \/ CtrlDecode
    \/ CtrlRelease

SpecCtrl == InitCtrl /\ [][NextCtrl]_vars

----------------------------------------------------------------------------
(* dn2str and str2dn applied to bounded arguments (SpecDn)                 *)

InitDn ==
    /\ HandleIdle /\ ErrIdle
    /\ modIn \in DnInputs
    /\ mpc = "entry" /\ heap = <<>> /\ lms = 0 /\ cur = 0 /\ mres = NoMres

NextDn ==
    \/ Dn2strEnter
    \/ Dn2strRdn
    \/ Dn2strEngine
    \/ Dn2strError
    \/ Str2dnEnter
    \/ Str2dnRebuild

SpecDn == InitDn /\ [][NextDn]_vars

----------------------------------------------------------------------------
(* The control codecs applied to bounded arguments (SpecCodec)             *)

InitCodec ==
    /\ HandleIdle /\ ErrIdle
    /\ modIn \in CodecInputs
    /\ mpc = "entry" /\ heap = <<>> /\ lms = 0 /\ cur = 0 /\ mres = NoMres

NextCodec ==
    \/ PageEncode
    \/ PageDecode
    \/ AssertCreate
    \/ AssertBuild

SpecCodec == InitCodec /\ [][NextCodec]_vars

----------------------------------------------------------------------------
(* The SASL interaction callback on bounded arrays (SpecSasl)              *)

InitSasl ==
    /\ HandleIdle /\ ErrIdle
    /\ modIn \in SaslInputs
    /\ mpc = "loop" /\ heap = <<>> /\ lms = 0 /\ cur = 1 /\ mres = NoMres

NextSasl ==
    \/ SaslInteract

SpecSasl == InitSasl /\ [][NextSasl]_vars

----------------------------------------------------------------------------
(* Properties of the handle driven by one thread (Spec)                    *)

\* The methods that check the handle's validity.
CheckedOps == DispatchOps \cup {"result4"}

\* Thread t takes the step that enters method op with arguments a: the call
\* either returned at once (ret') or is on its way to an engine call (frame').
Entered(t, ops) ==
    /\ pc[t] = "idle"
    /\ \/ /\ pc'[t] = "idle" /\ ret'[t] # ret[t]
          /\ ret'[t].op \in ops /\ ret'[t].a.wf
       \/ /\ pc'[t] # "idle"
          /\ frame'[t].op \in ops /\ frame'[t].a.wf

\* C1: on a handle that is no longer valid, every validity-checked method
\* called with well-formed arguments raises "LDAP connection invalid" before
\* any marshalling and before any engine call, and leaves the validity flag
\* and the thread-state slot as they were.
C1_InvalidHandleRejected ==
    [][\A t \in Threads :
          (~valid /\ Entered(t, CheckedOps)) =>
              /\ pc'[t] = "idle"
              /\ ret'[t].exc = ConnInvalid
              /\ ret'[t].val = NoVal
              /\ ret'[t].marsh = {}
              /\ ret'[t].neng = 0
              /\ ret'[t].res = NoRes
              /\ valid' = valid
              /\ save' = save]_vars

C1_Witness ==
    \E t \in Threads :
        /\ ret[t].op = "search_ext" /\ ret[t].a.wf /\ ret[t].a.attrs = "ok"
        /\ ~ret[t].validIn /\ ~valid
        /\ ret[t].exc = ConnInvalid

\* C2 (as claimed): unbind_ext on an already unbound handle is a no-op that
\* returns normally, without an engine call, and leaves the handle unbound.
C2_CloseIsNoOp ==
    [][\A t \in Threads :
          (~valid /\ Entered(t, {"unbind_ext"})) =>
              /\ pc'[t] = "idle"
              /\ ret'[t].exc = NoExc
              /\ ret'[t].neng = 0
              /\ ~valid']_vars

\* C2 (amended): unbind_ext on an already unbound handle raises "LDAP
\* connection invalid"; it marshals nothing, makes no engine call (the
\* session is not released a second time) and leaves the handle unbound.
C2_CloseOnUnboundRaises ==
    [][\A t \in Threads :
          (~valid /\ Entered(t, {"unbind_ext"})) =>
              /\ pc'[t] = "idle"
              /\ ret'[t].exc = ConnInvalid
              /\ ret'[t].marsh = {}
              /\ ret'[t].neng = 0
              /\ ~valid'
              /\ ldap' = ldap]_vars

C2_Witness ==
    \E t \in Threads :
        /\ ret[t].op = "unbind_ext" /\ ret[t].a.wf
        /\ ~ret[t].validIn /\ ~valid /\ ldap = "unbound"
        /\ ret[t].exc = ConnInvalid /\ ret[t].neng = 0

\* C3: with one thread per handle the thread-state slot is empty whenever no
\* call is running (at every entry and after every return, whatever the
\* outcome), it is occupied only between LDAP_BEGIN_ALLOW_THREADS and the
\* matching LDAP_END_ALLOW_THREADS around one engine call, where it holds the
\* caller's own thread state, and the fatal state is never reached.
C3_SlotDiscipline ==
    /\ ~Fatal
    /\ pc["T1"] = "idle" => save = NULL
    /\ pc["T1"] = "store" => save = NULL
    /\ pc["T1"] = "restore" => save = NULL /\ frame["T1"].saved = tstate["T1"]
    /\ save # NULL =>
          /\ pc["T1"] \in {"engine", "load", "clear"}
          /\ ~frame["T1"].held
          /\ save = tstate["T1"]

C3_Witness ==
    /\ pc["T1"] = "engine" /\ save = tstate["T1"]
    /\ frame["T1"].op = "result4" /\ frame["T1"].phase = "ldap_parse_result"
    /\ frame["T1"].neng = 1

\* C4: no engine call is made while the calling thread holds the execution
\* context: at every engine call of every dispatcher, the interactive SASL
\* bind included, the context has been released and the slot holds the
\* caller's saved thread state.
C4_EngineCallsBracketed ==
    \A t \in Threads :
        pc[t] = "engine" =>
            /\ gil # t
            /\ ~frame[t].held
            /\ save = tstate[t]

\* C6: when ldap_result reports that no result is available, result4 returns
\* the envelope of Nones exactly when the timeout is 0, and raises TIMEOUT
\* for every other timeout, the negative (wait forever) ones included.
NoResultYet(t) ==
    /\ pc[t] = "restore" /\ pc'[t] # "restore"
    /\ frame[t].op = "result4" /\ frame[t].phase = "ldap_result"
    /\ frame[t].res_type = 0

C6_PollOrTimeout ==
    [][\A t \in Threads :
          NoResultYet(t) =>
              /\ pc'[t] = "idle"
              /\ (frame[t].a.timeout = 0) <=>
                     /\ ret'[t].exc = NoExc
                     /\ ret'[t].val =
                            Val(IF frame[t].a.add_extop THEN "none6" ELSE "none4", 0)
              /\ (frame[t].a.timeout # 0) <=>
                     /\ ret'[t].exc = ExcNone("TIMEOUT")
                     /\ ret'[t].val = NoVal]_vars

C6_Witness ==
    \E t \in Threads :
        /\ ret[t].op = "result4" /\ ret[t].a.timeout < 0
        /\ ret[t].exc = ExcNone("TIMEOUT") /\ ret[t].neng = 1

\* The class the table registers for a result code, or the base class.
ClassOf(code) ==
    IF code \in DOMAIN ErrorNames THEN ErrorNames[code] ELSE LDAPexception_class

\* C7: when the final parse of a terminal message reports a result other
\* than success, result4 raises (it does not return an envelope) the class
\* registered for that code, with the code in "result" and the message's
\* diagnostic text, when it has one, in "info".
FinalParsed(t) ==
    /\ pc[t] = "restore" /\ pc'[t] # "restore"
    /\ frame[t].op = "result4" /\ frame[t].phase = "ldap_parse_result"
    /\ frame[t].msg.type \in TerminalTypes

----------------------------------------------------------------------------
(* Properties of two threads on one handle (SpecMT)                        *)

\* Thread t takes the step that runs the test of LDAP_BEGIN_ALLOW_THREADS.
BeginsRelease(t) ==
    /\ pc[t] \in {"idle", "restore"}
    /\ pc[t] = "restore" => frame[t].saved # NULL
    /\ pc'[t] \in {"store", "fatal"}

----------------------------------------------------------------------------
(* Properties of the error mapper (SpecErr)                                *)

\* The result code a mapper call classifies.
ClassifiedCode ==
    IF errOut.fn = "LDAPerr" THEN errIn.lderrno
    ELSE IF errIn.m.present THEN errIn.m.code
    ELSE IF errIn.optres # LDAP_OPT_SUCCESS THEN errIn.optres
    ELSE errIn.lderrno

\* The call got as far as choosing a class and building the payload.
Classified ==
    /\ errOut.fn # "-"
    /\ errIn.fail = "none"
    /\ errOut.fn = "LDAPraise_for_message" =>
          /\ errIn.l
          /\ errIn.m.present \/ errIn.optres # LDAP_NO_MEMORY

\* C8: LDAPerr and LDAPraise_for_message raise the class registered for the
\* code when the code lies in the table's range and has a class, and the
\* base class otherwise; no slot outside errobjects is read; an unclassified
\* bare code is raised with the payload {errnum: code}.
C8_TableLookup ==
    /\ errOut.idx \subseteq DOMAIN errobjects
    /\ Classified =>
          /\ errOut.exc.cls = ClassOf(ClassifiedCode)
          /\ (errOut.fn = "LDAPerr" /\ ClassifiedCode \notin DOMAIN ErrorNames) =>
                 errOut.exc =
                     Exc(LDAPexception_class, "errnum", "", ClassifiedCode, NoInfo)
          /\ errOut.fn = "LDAPraise_for_message" =>
                 errOut.exc.info.result = ClassifiedCode

C8_Witness ==
    /\ errOut.fn = "LDAPerr" /\ errIn.lderrno = CodeAbove
    /\ errIn.oob = "garbage" /\ errIn.fail = "none"
    /\ errOut.idx = {}
    /\ errOut.exc = Exc(LDAPexception_class, "errnum", "", CodeAbove, NoInfo)

----------------------------------------------------------------------------
(* Properties of the modification-list marshaller (SpecMods)               *)

\* The value descriptors an array of values holds before its terminator.
Descriptors(bv) == {k \in DOMAIN heap[bv].slots : heap[bv].slots[k] # 0}

\* The number of values Tuple_to_LDAPMod stores for the values of a tuple.
NValues(v) ==
    IF v.kind = "bytes" THEN 1 ELSE IF v.kind = "seq" THEN v.n ELSE 0

\* C9 (as claimed): in a returned array no pointer refers to memory of the
\* caller's objects: the type and every value buffer are copies.
C9_NothingAliasesCaller ==
    mpc = "returned" =>
        \A p \in DOMAIN heap :
            /\ heap[p].kind = "mod_type" => heap[p].ty # ""
            /\ heap[p].kind = "berval" => heap[p].val = "owned"

\* C9 (amended): in a returned array every record, its type string (a copy
\* of the caller's string), its array of values and every value descriptor
\* are blocks allocated for the array, none of them freed and every stored
\* pointer naming such a block; the value bytes are not copied: the bv_val
\* of every descriptor points into the caller's bytes object.
C9_TypesCopiedValuesAliased ==
    mpc = "returned" =>
        /\ \A p \in DOMAIN heap :
              /\ heap[p].frees = 0
              /\ \A k \in DOMAIN heap[p].slots : heap[p].slots[k] \in 0 .. Len(heap)
        /\ heap[lms].slots[Len(modIn.items) + 1] = 0
        /\ \A i \in 1 .. Len(modIn.items) :
              LET lm == heap[lms].slots[i]
                  ty == heap[lm].slots[1]
                  bv == heap[lm].slots[2]
                  v == modIn.items[i].vals
              IN  /\ lm > 0 /\ heap[lm].kind = "LDAPMod"
                  /\ ty > 0 /\ heap[ty].kind = "mod_type"
                  /\ heap[ty].ty = modIn.items[i].type
                  /\ v.kind \in {"None", "int"} <=> bv = 0
                  /\ bv # 0 =>
                        /\ heap[bv].kind = "mod_bvalues"
                        /\ Cardinality(Descriptors(bv)) = NValues(v)
                        /\ \A k \in Descriptors(bv) :
                              /\ heap[heap[bv].slots[k]].kind = "berval"
                              /\ heap[heap[bv].slots[k]].val = "caller"

C9_Witness ==
    /\ mpc = "returned" /\ Len(modIn.items) = 2
    /\ modIn.items[1].vals.kind = "bytes"
    /\ modIn.items[2].vals.kind = "seq" /\ modIn.items[2].vals.n = 2
    /\ Cardinality({p \in DOMAIN heap : heap[p].val = "caller"}) = 3

\* C10: when List_to_LDAPMods returns an error, every block it allocated has
\* been freed exactly once, the cleanup has read no slot that was never
\* written and has freed no pointer that names no block.
C10_FailureFreesEverythingOnce ==
    mpc = "failed" =>
        /\ mres.exc \in {"TypeError", "MemoryError", "IndexError"}
        /\ \A p \in DOMAIN heap : heap[p].frees = 1
        /\ ~mres.uninit
        /\ ~mres.wild

\* C11: an add or modify call whose list holds an entry with values that are
\* neither None, nor bytes, nor a sequence of bytes (an int) does not get a
\* native list: List_to_LDAPMods fails with TypeError, so that no engine
\* call follows, and nothing it allocated stays live.
HasIntValues ==
    \E i \in DOMAIN modIn.items :
        modIn.items[i].kind = "tuple" /\ modIn.items[i].vals.kind = "int"

C11_IntValuesRejected ==
    HasIntValues =>
        /\ mpc \notin {"returned", "released"}
        /\ mpc = "failed" => \A p \in DOMAIN heap : heap[p].frees = 1

\* The entries Tuple_to_LDAPMod is specified for.
ValidEntry(e) ==
    /\ e.kind = "tuple"
    /\ e.vals.kind \in {"None", "bytes", "seq"}
    /\ e.vals.bad = 0

\* C12: the record built for a valid entry carries the entry's operation
\* code (0 for the 2-tuples of no_op; LDAP_MOD_BVALUES marks the values as
\* bervals) and a copy of its type; its values are a null pointer for None,
\* a terminated array of one value for one bytes object, and a terminated
\* array of the n values in their order for a sequence of n, which for n = 0
\* is a non-null array holding the terminator alone.
C12_RecordMatchesEntry ==
    mpc = "returned" =>
        \A i \in DOMAIN modIn.items :
            ValidEntry(modIn.items[i]) =>
                LET lm == heap[lms].slots[i]
                    bv == heap[lm].slots[2]
                    v == modIn.items[i].vals
                    n == NValues(v)
                IN  /\ heap[lm].op - LDAP_MOD_BVALUES =
                          (IF modIn.no_op THEN 0 ELSE modIn.op)
                    /\ heap[heap[lm].slots[1]].ty = modIn.items[i].type
                    /\ v.kind = "None" => bv = 0
                    /\ v.kind # "None" =>
                          /\ bv > 0
                          /\ Len(heap[bv].slots) >= n + 1
                          /\ heap[bv].slots[n + 1] = 0
                          /\ \A k \in 1 .. n :
                                /\ heap[bv].slots[k] > 0
                                /\ heap[heap[bv].slots[k]].len = k
                                /\ heap[heap[bv].slots[k]].val # "-"

C12_Witness ==
    /\ mpc = "returned" /\ Len(modIn.items) = 2 /\ modIn.no_op
    /\ modIn.items[1].vals.kind = "seq" /\ modIn.items[1].vals.n = 0
    /\ ValidEntry(modIn.items[1])
    /\ modIn.items[2].vals.kind = "seq" /\ modIn.items[2].vals.n = 2
    /\ ValidEntry(modIn.items[2])
    /\ heap[heap[heap[lms].slots[1]].slots[2]].slots = <<0>>

----------------------------------------------------------------------------
(* Properties of the control lists (SpecCtrl)                              *)

\* A list of triples (oid, criticality, bytes or None), or no list at all.
WellFormedControls ==
    /\ modIn.kind \in {"null", "seq"}
    /\ \A i \in 1 .. Len(modIn.items) :
          modIn.items[i].kind = "tuple" /\ modIn.items[i].val.kind # "str"

\* The list the caller passed, as triples.
GivenControls ==
    [i \in 1 .. Len(modIn.items) |->
        [oid |-> modIn.items[i].oid, crit |-> modIn.items[i].crit,
         val |-> modIn.items[i].val]]

\* C13: decoding the array built from a list of controls gives the list
\* back: same length, same order, each oid, criticality and value equal, a
\* None value still None; an array that is NULL or holds no control decodes
\* to the empty list, never to NULL.
C13_ControlsRoundTrip ==
    (mpc = "decoded" /\ WellFormedControls /\ mres.exc = "") =>
        /\ mres.res = "list"
        /\ mres.out = GivenControls
        /\ ~mres.uninit /\ ~mres.wild

C13_Witness ==
    /\ mpc = "decoded" /\ WellFormedControls /\ mres.exc = ""
    /\ Len(modIn.items) = 2
    /\ modIn.items[1].val.kind = "None" /\ modIn.items[1].crit = 1
    /\ modIn.items[2].val = [kind |-> "bytes", len |-> 0]
    /\ modIn.items[1].oid # modIn.items[2].oid
    /\ mres.out = GivenControls

\* C15: when the building of a control list fails, the array and every
\* record built before the failure, with its copy of the oid, have been
\* freed.
C15_FailureFreesControls ==
    mpc = "failed" => \A p \in DOMAIN heap : heap[p].frees = 1

----------------------------------------------------------------------------
(* Properties of the dispatchers' marshalled arguments (Spec)              *)

MarshalledKeys == {"mods", "attrs", "server_ldcs", "client_ldcs"}

\* C14: whatever way a dispatcher returns (a later argument fails to
\* marshal, the SASL mechanism attribute cannot be read, the engine call
\* fails or succeeds), every modification list, attribute list and control
\* list it marshalled has been freed exactly once.
C14_MarshalledFreedOnce ==
    \A t \in Threads :
        ret[t].op \in DispatchOps =>
            \A k \in MarshalledKeys : ret[t].res[k] \in {"null", "freed"}

----------------------------------------------------------------------------
(* Properties of the distinguished names (SpecDn)                          *)

\* C16: on every way out of dn2str (success, failure of the engine's
\* builder, a failure of shape, type or allocation at any RDN and any AVA)
\* every RDN array, every AVA record and every name and value buffer has
\* been freed exactly once.
C16_DnFreedOnce ==
    (modIn.fn = "dn2str" /\ mpc \in {"done", "failed"}) =>
        \A p \in DOMAIN heap : heap[p].frees = 1

\* C17: str2dn of the empty string returns the empty list whatever the
\* flags, raises nothing and does not call the engine's parser; for any
\* other string the parser is called once, and the tree it built is freed
\* exactly once whether or not the list could be rebuilt from it.
C17_Str2dn ==
    (modIn.fn = "str2dn" /\ mpc \in {"done", "failed"}) =>
        IF modIn.len = 0
        THEN /\ mres.calls = 0
             /\ heap = <<>>
             /\ mres.res = "list" => (mres.out = <<>> /\ mres.exc = "")
             /\ mres.res # "list" => mres.exc = "MemoryError"
        ELSE /\ mres.calls = 1
             /\ \A p \in DOMAIN heap : heap[p].frees = 1
             /\ mpc = "done" => heap # <<>>

C17_Witness ==
    /\ modIn.fn = "str2dn" /\ modIn.len > 0 /\ mpc = "done"
    /\ mres.exc = "MemoryError" /\ mres.calls = 1
    /\ Len(heap) = 1 /\ heap[1].kind = "LDAPDN" /\ heap[1].frees = 1

----------------------------------------------------------------------------
(* Properties of the error mapper's native allocations (SpecErr)           *)

\* C18: however LDAPraise_for_message leaves (no session, the last error
\* number cannot be read, a step of the payload fails, the controls cannot
\* be decoded, the error is raised), the message, the matched DN, the
\* diagnostic text, the referral array and the controls array have each been
\* released exactly once, and nothing was released that did not exist.
C18_NativesReleasedOnce ==
    errOut.fn = "LDAPraise_for_message" =>
        \A k \in Natives :
            errOut.rel[k].frees = IF errOut.rel[k].live THEN 1 ELSE 0

C18_Witness ==
    /\ errOut.fn = "LDAPraise_for_message"
    /\ \A k \in Natives : errOut.rel[k].live /\ errOut.rel[k].frees = 1
    /\ errOut.exc.form = "info" /\ errOut.exc.info.matched = "dc=x"

----------------------------------------------------------------------------
(* Properties of the failing exits of result4 (Spec)                       *)

\* C19: when the terminal message carries the code REFERRAL and at least one
\* referral, the error result4 raises has the text of the referral in
\* "info", whatever the diagnostic says; for every other code that is not
\* success "info" is the diagnostic text, and absent when that is empty.
C19_ReferralInfo ==
    [][\A t \in Threads :
          (FinalParsed(t) /\ frame[t].msg.code # LDAP_SUCCESS) =>
              ret'[t].exc.info.info =
                  IF frame[t].msg.code = LDAP_REFERRAL /\ frame[t].msg.nrefs >= 1
                  THEN ReferralInfo
                  ELSE frame[t].msg.diag]_vars

\* Thread t leaves result4 with an error after the terminal message was
\* parsed: the result is not success, or the controls could not be decoded.
FinalError(t) ==
    /\ pc[t] = "restore" /\ pc'[t] = "idle"
    /\ frame[t].op = "result4"
    /\ frame[t].phase \in {"ldap_parse_result", "ldap_set_option"}
    /\ frame[t].msg.type \in TerminalTypes
    /\ ret'[t].exc # NoExc

ResultNatives == {"msg", "serverctrls", "refs", "retoid", "retdata"}

\* C20: on every such exit the message, the array of server controls, the
\* array of referrals, the oid and the value of an extended response have
\* each been released exactly once.
C20_ResultNativesReleased ==
    [][\A t \in Threads :
          FinalError(t) =>
              \A k \in ResultNatives : ret'[t].res[k] \in {"null", "freed"}]_vars

----------------------------------------------------------------------------
(* Properties of the control codecs (SpecCodec)                            *)

\* C21: decoding what encode_page_control made of a size and a cookie gives
\* back the size and the cookie, for the empty cookie too, which is encoded
\* as an OCTET STRING of no bytes; the decoder does not fail on the
\* encoder's output.
C21_PageRoundTrip ==
    (mpc = "decoded" /\ mres.exc # "MemoryError") =>
        /\ mres.exc = ""
        /\ mres.res = "tuple"
        /\ mres.out = <<modIn.n, modIn.cookie>>
        /\ SubSeq(heap[1].slots, Len(heap[1].slots) - Len(modIn.cookie) - 1,
                  Len(heap[1].slots)) = Tlv(4, modIn.cookie)

C21_Witness ==
    /\ mpc = "decoded" /\ mres.res = "tuple"
    /\ modIn.n = 0 - 129 /\ modIn.cookie = <<>>
    /\ heap[1].slots = <<48, 6, 2, 2, 255, 127, 4, 0>>
    /\ mres.out = <<0 - 129, <<>>>>

\* The steps of the log from the k-th on.
LogAfter(k) == SubSeq(mres.out, k + 1, Len(mres.out))

\* C22: a session encode_assertion_control created is released exactly once
\* whether the builder succeeds or fails; when it fails the error is raised
\* from the session before the release; nothing uses the session after its
\* release.
C22_ThrowawaySession ==
    (modIn.fn = "encode_assertion_control" /\ mpc \in {"done", "failed"}
     /\ heap # <<>>) =>
        /\ heap[lms].frees = 1
        /\ Count(mres.out, "ldap_unbind_ext") = 1
        /\ mres.out[Len(mres.out)] = "ldap_unbind_ext"
        /\ mpc = "failed" =>
              (Count(mres.out, "LDAPerror") = 1
               /\ mres.out[Len(mres.out) - 1] = "LDAPerror")

C22_Witness ==
    /\ modIn.fn = "encode_assertion_control" /\ mpc = "failed"
    /\ Len(heap) = 1 /\ heap[1].kind = "LDAP" /\ heap[1].frees = 1
    /\ mres.out = <<"ldap_create", "ldap_create_assertion_control_value",
                    "LDAPerror", "ldap_unbind_ext">>

----------------------------------------------------------------------------
(* Properties of the option methods and of the handle's lifetime (Spec)    *)

\* Thread t calls set_option with a read-only or an unclassified option, or
\* get_option with an unclassified one, the arguments being well formed.
OptionRefused(t) ==
    /\ Entered(t, OptionOps)
    /\ LET r == IF pc'[t] = "idle" THEN ret'[t] ELSE frame'[t]
       IN  \/ r.a.optcls = "unknown"
           \/ r.op = "set_option" /\ r.a.optcls = "readonly"

\* C23: set_option with a read-only or unclassified option and get_option
\* with an unclassified option raise ValueError without an engine call,
\* without marshalling anything and without touching the thread-state slot.
C23_OptionRefused ==
    [][\A t \in Threads :
          OptionRefused(t) =>
              /\ pc'[t] = "idle"
              /\ ret'[t].exc.cls = "ValueError"
              /\ ret'[t].val = NoVal
              /\ ret'[t].neng = 0
              /\ ret'[t].marsh = {}
              /\ ret'[t].res = NoRes
              /\ save' = save]_vars

C23_Witness ==
    \E t \in Threads :
        /\ ret[t].op = "set_option" /\ ret[t].a.wf /\ ret[t].a.optcls = "readonly"
        /\ ret[t].exc = ValueError("read-only option")
        /\ ret[t].neng = 0

----------------------------------------------------------------------------
(* Properties of the SASL interaction callback (SpecSasl)                  *)

\* The ids of the items before the list end, in the order of the array.
ItemIds == [k \in 1 .. Len(modIn.items) - 1 |-> modIn.items[k].id]

\* Item k succeeded: the callback returned bytes and the copy was made.
ItemOk(k) == modIn.items[k].reply = "bytes" /\ modIn.items[k].strdup

\* The first item that does not succeed, or the index of the list end.
FirstFailing ==
    CHOOSE k \in 1 .. Len(modIn.items) :
        /\ k < Len(modIn.items) => ~ItemOk(k)
        /\ \A j \in 1 .. k - 1 : ItemOk(j)

EngineRuns(t) == pc[t] = "engine" /\ pc'[t] # "engine"

\* C25: over the life of a handle, whatever operations are called on it, an
\* unbind_ext whose engine call fails among them, the engine's unbind is
\* invoked at most once, and it has been invoked once when the handle is
\* destroyed.
C25_UnbindOnce ==
    [][/\ \A t \in Threads :
             (EngineRuns(t) /\ frame[t].op \in {"unbind_ext", "dealloc"}) =>
                 ldap = "open"
       /\ (alive /\ ~alive') => ldap = "unbound"]_vars

\* C26: once unbind_ext has succeeded, no operation on the handle,
\* set_option and get_option included, hands the released session to the
\* engine.
C26_NoUseAfterUnbind ==
    [][\A t \in Threads : EngineRuns(t) => valid]_vars

\* C27: the thread-state slot of the handle is read and written only by a
\* thread that holds the execution context, in the release step and in the
\* reacquire step, however two threads interleave.
C27_SlotAccessHoldsContext ==
    [][\A t \in Threads :
          (pc[t] \in {"store", "load", "clear"} /\ pc'[t] # pc[t]) => gil = t]_vars

\* Thread t returns from the engine call of the given phase of result4.
AfterPhase(t, phase) ==
    /\ pc[t] = "restore" /\ pc'[t] \notin {"restore", "fatal"}
    /\ frame[t].op = "result4" /\ frame[t].phase = phase

\* C28 (as claimed): for an extended result, result4 parses the response
\* oid and value only after the final result has been parsed with success,
\* and makes the value object exactly when decodeExtendedOp was asked for.
C28_ExtendedAfterFinal ==
    [][\A t \in Threads :
          /\ (EngineRuns(t) /\ frame[t].op = "result4"
              /\ frame[t].phase = "ldap_parse_extended_result") =>
                 (frame[t].neng >= 2 /\ frame[t].result = LDAP_SUCCESS
                  /\ frame[t].msg.code = LDAP_SUCCESS)
          /\ AfterPhase(t, "ldap_parse_extended_result") =>
                 (frame'[t].valuestr <=> frame[t].a.add_extop)]_vars

\* C28 (amended): for an extended result, result4 parses the response oid
\* and value right after ldap_result and before it parses the final result,
\* whatever result code the message carries; it makes the value object
\* exactly when that parse succeeded, asked for or not; and the envelope it
\* returns carries the oid and the value exactly when decodeExtendedOp was
\* asked for.
C28_ExtendedBeforeFinal ==
    [][\A t \in Threads :
          /\ (AfterPhase(t, "ldap_result") /\ frame[t].res_type = LDAP_RES_EXTENDED) =>
                 /\ frame'[t].phase = "ldap_parse_extended_result"
                 /\ frame'[t].neng = 1
          /\ AfterPhase(t, "ldap_parse_extended_result") =>
                 /\ frame'[t].phase = "ldap_parse_result"
                 /\ frame'[t].neng = 2
                 /\ frame'[t].valuestr <=> (frame[t].rc = LDAP_SUCCESS)
          /\ (AfterPhase(t, "ldap_parse_result") /\ pc'[t] = "idle"
              /\ ret'[t].exc = NoExc) =>
                 (ret'[t].val.form = "env6" <=> frame[t].a.add_extop)]_vars

C28_Witness ==
    \E t \in Threads :
        /\ pc[t] = "engine" /\ frame[t].op = "result4"
        /\ frame[t].phase = "ldap_parse_result" /\ frame[t].neng = 2
        /\ frame[t].res_type = LDAP_RES_EXTENDED
        /\ frame[t].msg.code = LDAP_NO_SUCH_OBJECT
        /\ frame[t].valuestr /\ ~frame[t].a.add_extop

\* C29: when result4 returns the envelope of a terminal message, the array
\* of server controls, the array of referrals and the oid of the extended
\* response have each been released exactly once.
C29_SuccessNativesReleased ==
    \A t \in Threads :
        (ret[t].op = "result4" /\ ret[t].exc = NoExc
         /\ ret[t].val.form \in {"env4", "env6"} /\ ret[t].val.n \in TerminalTypes) =>
            \A k \in {"serverctrls", "refs", "retoid"} :
                ret[t].res[k] \in {"null", "freed"}

\* Thread t calls a method of ops, whatever the arguments.
Called(t, ops) ==
    /\ pc[t] = "idle"
    /\ \/ pc'[t] = "idle" /\ ret'[t] # ret[t] /\ ret'[t].op \in ops
       \/ pc'[t] # "idle" /\ frame'[t].op \in ops

\* C30 (as claimed): on an unbound handle every dispatcher and result4 raise
\* "LDAP connection invalid" whatever the arguments, malformed ones
\* included: the validity check precedes the parsing of the arguments.
C30_ValidityCheckedFirst ==
    [][\A t \in Threads :
          (~valid /\ Called(t, CheckedOps)) =>
              (pc'[t] = "idle" /\ ret'[t].exc = ConnInvalid)]_vars

\* C30 (amended): the validity check follows the parsing of the arguments:
\* on an unbound handle every dispatcher and result4 raise the TypeError of
\* the parser when the arguments are malformed and "LDAP connection invalid"
\* otherwise, in both cases before any marshalling and any engine call.
C30_ValidityCheckedAfterParsing ==
    [][\A t \in Threads :
          (~valid /\ Called(t, CheckedOps)) =>
              /\ pc'[t] = "idle"
              /\ ret'[t].exc = (IF ret'[t].a.wf THEN ConnInvalid ELSE ArgError)
              /\ ret'[t].marsh = {}
              /\ ret'[t].neng = 0
              /\ ~valid']_vars

C30_Witness ==
    \E t \in Threads :
        /\ ret[t].op = "result4" /\ ~ret[t].a.wf
        /\ ~ret[t].validIn /\ ~valid
        /\ ret[t].exc = ArgError

====
